---- MODULE Spec2Model ----
(***************************************************************************)
(* Memory-match game: the match-resolution and scoring state machine.      *)
(*                                                                         *)
(* The engine is single-threaded and event driven.  One step of the model  *)
(* is one browser task run to completion: a user input (card selection,    *)
(* pause, resume, restart, quit, start) or the firing of one setTimeout    *)
(* callback together with the promise continuations (microtasks) it        *)
(* releases.  The one exception is the return of checkMatch: the board's   *)
(* part of the task ends in a state where result holds the returned        *)
(* action, and the continuation of handleCardSelection (Deliver) is the    *)
(* next step; nothing else can run in between.                             *)
(* handleCardSelection is an async function; the places where              *)
(* it is suspended on a timer are the values of the field kind of the      *)
(* entries of procs:                                                       *)
(*    "flip"    selectCard awaits card.flip()           (300 ms)           *)
(*    "delay"   checkMatch awaits this.delay(500)       (500 ms)           *)
(*    "unflip"  checkMatch awaits Promise.all(unflip)   (500 ms)           *)
(*    "gameOver" endGame's setTimeout(showGameOver)     (1000 ms)          *)
(* Pending timers fire in any order that setTimeout allows: a timer that   *)
(* was created earlier with a delay that is not longer fires first.        *)
(* AudioManager.init() only awaits an async function without timers, so    *)
(* the first await of handleCardSelection resumes within the same task.    *)
(*                                                                         *)
(* The closures of a suspended selectCard/checkMatch keep their own        *)
(* GameBoard (this) and Card objects, whereas the continuation of          *)
(* handleCardSelection reads this.scoreSystem, this.players, this.gameBoard*)
(* of the controller at the time it runs.  Boards are therefore kept by    *)
(* identity: boards maps the number of the round that created a board to   *)
(* the board, for every board that is still referenced by the controller   *)
(* or by a pending callback, and gameBoard is the number of the            *)
(* controller's current one (0 for null).                                  *)
(*                                                                         *)
(* The wall clock: now is the value of Date.now(), and timers holds the    *)
(* callbacks that are driven by it, the delayed startTimer of startGame    *)
(* and the setInterval of ScoreSystem.startTimer, each with the time at    *)
(* which it is due.  The elapsed-time fields of the score engine (time,    *)
(* startTime, timerInterval, isPaused, pausedTime) are written by every    *)
(* handler as in the code, but no board, turn or match-scoring code reads  *)
(* them.  There are two specifications over the same handlers:             *)
(*    Spec       the card game with the clock standing still, so that the  *)
(*               clock-driven callbacks never become due;                  *)
(*    TimerSpec  the rounds' life cycle (start, pause, resume, restart,    *)
(*               quit) with the clock running and no card selected.        *)
(***************************************************************************)
EXTENDS Integers, Sequences, FiniteSets, TLC

(***************************************************************************)
(* Bounds of the model.                                                    *)
(***************************************************************************)
NumPairs == 2
MaxClicks == 4
MaxRounds == 2
MaxPlayers == 2
MaxMatches == 12        \* recordMatch calls in the score-engine specification
MaxMoves == 2           \* recordMove calls in the score-engine specification
MaxClockSteps == 4      \* clock advances in the timer specification
MaxFinalMoves == 12     \* moves in the final-score specification
MaxFinalCombo == 2      \* maxCombo in the final-score specification
MaxFinalCalls == 2      \* calls of calculateFinalScore told apart
MaxFinalMatches == 1    \* rounds completed in that specification
MaxStoreScores == 1     \* finite scores saved in the storage specification
MaxStoreTimes == 2      \* times saved in the storage specification
MaxStoreTicks == 1      \* clock advances in the storage specification
NumIcons == 3           \* icons of the theme kept in the deck specification
MaxDeckCalls == 1       \* calls of getCardPairs in the deck specification
MaxFinalScoreSteps == 6 \* running score, in steps of 50, in that specification

(***************************************************************************)
(* Program constants (delays in milliseconds).                             *)
(***************************************************************************)
FlipTime == 300
DelayTime == 500
UnflipTime == 500
GameOverTime == 1000
baseMatchScore == 100
comboMultiplierHalves == 1      \* config.comboMultiplier = 0.5, in halves
maxComboMultiplier == 5
StartDelay == 500               \* startGame: setTimeout(startTimer, 500)
TickPeriod == 1000              \* startTimer: setInterval(..., 1000)
timeBonusBase == 1000
perfectBonusMultiplier == 2
expectedSecondsPerPair == 10    \* expectedTime = totalPairs * 10
timeBonusScale == 10            \* (expectedTime - time) * 10 * diffMultiplier
comboFinalBonus == 50           \* maxCombo * 50 * diffMultiplier
threeStarFactor == 200          \* totalPairs * 200 * diffMultiplier
twoStarFactor == 100            \* totalPairs * 100 * diffMultiplier
EasyPairs == 6                  \* difficultySettings.easy.pairs
MAX_SCORES_PER_DIFFICULTY == 10
Infinity == 2147483647          \* Number.POSITIVE_INFINITY
Null == -1                      \* a stored score of null
DefaultName == "anonymous"      \* the name saved when none was typed
Epoch == 1000000                \* Date.now() when the page is loaded
ClockStep == StartDelay         \* granularity at which the clock is observed

\* the difficulty buttons offered by the menu in this model
Difficulties == {"easy"}

VARIABLES
    gameState,          \* GameController.gameState
    gameBoard,          \* GameController.gameBoard: key of boards, 0 = null
    boards,             \* the GameBoard objects still referenced, by identity
    procs,              \* pending timer callbacks, in order of creation
    scoreSystem,        \* the ScoreSystem singleton (scoring fields)
    isMultiplayer,      \* GameController.isMultiplayer
    players,            \* GameController.players
    currentPlayerIndex, \* GameController.currentPlayerIndex
    difficulty,         \* GameController.difficulty
    screen,             \* UIManager.currentScreen: "menu" or "game"
    pauseMenu,          \* the pause menu is shown (its 'hidden' class is off)
    gameOverModal,      \* the game-over dialog is shown
    clicks,             \* number of card selections made so far
    result,             \* the action returned by checkMatch, not yet handled
    stats,              \* history of the current round: second cards accepted,
                        \* calls of endGame, highest combo seen, milliseconds
                        \* passed while the score engine was not paused
    last,               \* what the latest step did (history)
    now,                \* Date.now(), in milliseconds
    timers,             \* pending clock-driven callbacks, in order of creation
    finalScore,         \* the breakdown returned by the latest call of
                        \* calculateFinalScore, with its argument (history)
    lastScore,          \* GameController.lastScore
    leaderboard,        \* localStorage['memoryGame_leaderboard'], parsed
    saved,              \* what the latest StorageManager.saveScore did (history)
    deck                \* the cards returned by the latest direct call of
                        \* CardThemes.getCardPairs, with its argument (history)

vars == <<gameState, gameBoard, boards, procs, scoreSystem, isMultiplayer,
          players, currentPlayerIndex, difficulty, screen, pauseMenu,
          gameOverModal, clicks, result, stats, last, now, timers,
          finalScore, lastScore, leaderboard, saved, deck>>

-----------------------------------------------------------------------------
(***************************************************************************)
(* Deck: getCardPairs gives card 2k and 2k+1 the pairId k; shuffle only    *)
(* permutes grid positions, and every operation below addresses a card by  *)
(* its object, so cards are named by their id.                             *)
(***************************************************************************)
\* no call of getCardPairs yet
NoDeck == [pairCount |-> 0, cards |-> << >>]

CardIds == 0 .. (2 * NumPairs - 1)

PairId(c) == c \div 2

\* Card.matches
matches(c1, c2) == PairId(c1) = PairId(c2) /\ c1 # c2

\* new GameBoard(difficulty) followed by init()
NewBoard ==
    [ isFlipped    |-> [c \in CardIds |-> FALSE],
      isMatched    |-> [c \in CardIds |-> FALSE],
      isDisabled   |-> [c \in CardIds |-> FALSE],
      hasCards     |-> TRUE,      \* this.cards holds the cards (not cleared)
      flippedCards |-> << >>,
      matchedPairs |-> 0,
      totalPairs   |-> NumPairs,
      isLocked     |-> FALSE ]

\* GameBoard.clear
clear(bd) == [bd EXCEPT !.hasCards = FALSE, !.flippedCards = << >>]

\* GameBoard.enableAllCards: card.enable() on every card of this.cards
enableAllCards_ResetsCards(bd) ==
    [bd EXCEPT !.isDisabled = IF bd.hasCards THEN [c \in CardIds |-> FALSE] ELSE @,
               !.isMatched = IF bd.hasCards THEN [c \in CardIds |-> FALSE] ELSE @,
               !.isLocked = FALSE]
enableAllCards(bd) ==
    [bd EXCEPT !.isDisabled = IF bd.hasCards THEN [c \in CardIds |-> FALSE] ELSE @,
               !.isLocked = FALSE]

\* GameBoard.disableAllCards
disableAllCards(bd) ==
    [bd EXCEPT !.isDisabled = IF bd.hasCards THEN [c \in CardIds |-> TRUE] ELSE @,
               !.isLocked = TRUE]

\* the guard of GameBoard.selectCard
selectCardIgnored_LockOnly(bd, c) == bd.isLocked
selectCardIgnored(bd, c) == bd.isLocked \/ bd.isFlipped[c] \/ bd.isMatched[c]

\* the guard of Card.flip: the flip is refused and resolves at once
flipRefused(bd, c) == bd.isFlipped[c] \/ bd.isMatched[c] \/ bd.isDisabled[c]

\* the guard of Card.unflip
unflipRefused(bd, c) == ~bd.isFlipped[c] \/ bd.isMatched[c]

\* Card.setMatched on both cards
setMatched_FirstOnly(bd, c1, c2) ==
    [bd EXCEPT !.isMatched  = [@ EXCEPT ![c1] = TRUE],
               !.isDisabled = [@ EXCEPT ![c1] = TRUE]]
setMatched(bd, c1, c2) ==
    [bd EXCEPT !.isMatched  = [c \in CardIds |-> IF c \in {c1, c2} THEN TRUE ELSE @[c]],
               !.isDisabled = [c \in CardIds |-> IF c \in {c1, c2} THEN TRUE ELSE @[c]]]

-----------------------------------------------------------------------------
(***************************************************************************)
(* ScoreSystem (scoring fields).                                           *)
(***************************************************************************)
\* difficultyMultipliers, doubled to stay in the integers (1, 1.5, 2, 3)
DiffMult2(d) ==
    CASE d = "easy" -> 2 [] d = "medium" -> 3 [] d = "hard" -> 4
      [] d = "expert" -> 6 [] OTHER -> 2

Min(a, b) == IF a < b THEN a ELSE b

\* the keys of ScoreSystem.difficultyMultipliers
AllDifficulties == {"easy", "medium", "hard", "expert"}

\* ScoreSystem.calculateMatchScore (.total):
\*   round(baseMatchScore * (1 + min(combo * 0.5, 5)) * diffMultiplier)
\* with the combo bonus counted in halves and the multiplier doubled; the
\* product is a multiple of 4, so the rounding is exact
calculateMatchScore_NoCap(s) ==
    (baseMatchScore * (2 + s.combo * comboMultiplierHalves) * DiffMult2(s.difficulty)) \div 4
calculateMatchScore(s) ==
    LET comboBonus2 == Min(s.combo * comboMultiplierHalves, 2 * maxComboMultiplier)
    IN  (baseMatchScore * (2 + comboBonus2) * DiffMult2(s.difficulty)) \div 4

\* ScoreSystem.reset followed by setDifficulty(d)
\* startTime = null is 0: the code uses it only in subtractions, where null
\* counts as 0; timerInterval = null is 0, interval ids are positive
resetScore(d) ==
    [score |-> 0, moves |-> 0, matches |-> 0, combo |-> 0, maxCombo |-> 0,
     time |-> 0, startTime |-> 0, timerInterval |-> 0, isPaused |-> FALSE,
     pausedTime |-> 0, difficulty |-> d]

\* a pending callback of the clock: the delayed startTimer of startGame
\* (id 0) or a live interval of startTimer (id = its handle)
Timer(k, due, id) == [kind |-> k, due |-> due, id |-> id]

\* a handle that no live interval has
NewIntervalId(ts) ==
    CHOOSE n \in 1 .. (Len(ts) + 1) :
        \A i \in DOMAIN ts : ts[i].kind = "interval" => ts[i].id # n

\* ScoreSystem.startTimer at time t, with the interval handle id
startTimer(s, t, id) ==
    [s EXCEPT !.startTime = t - s.pausedTime, !.timerInterval = id]

\* clearInterval(id)
clearInterval(ts, id) ==
    LET keep(t) == ~(t.kind = "interval" /\ t.id = id)
    IN  SelectSeq(ts, keep)

\* ScoreSystem.stopTimer: the fields, and the timers it leaves
stopTimer(s) == [s EXCEPT !.timerInterval = 0]

stopTimerTimers(s, ts) ==
    IF s.timerInterval # 0 THEN clearInterval(ts, s.timerInterval) ELSE ts

\* ScoreSystem.pauseTimer at time t
pauseTimer(s, t) == [s EXCEPT !.isPaused = TRUE, !.pausedTime = t - s.startTime]

\* ScoreSystem.resumeTimer at time t
resumeTimer(s, t) == [s EXCEPT !.isPaused = FALSE, !.startTime = t - s.pausedTime]

\* the callback of the interval at time t
tick(s, t) ==
    IF ~s.isPaused THEN [s EXCEPT !.time = (t - s.startTime) \div 1000] ELSE s

\* ScoreSystem.recordMove
recordMove(s) == [s EXCEPT !.moves = @ + 1]

\* ScoreSystem.recordMatch
recordMatch_KeepsMaxCombo(s) ==
    LET s1 == [s EXCEPT !.matches = @ + 1, !.combo = @ + 1]
    IN  [s1 EXCEPT !.score = @ + calculateMatchScore(s1)]
recordMatch(s) ==
    LET s1 == [s EXCEPT !.matches = @ + 1, !.combo = @ + 1]
        s2 == [s1 EXCEPT !.maxCombo = IF s1.combo > @ THEN s1.combo ELSE @]
    IN  [s2 EXCEPT !.score = @ + calculateMatchScore(s2)]

\* ScoreSystem.recordMiss
recordMiss_LosesPoints(s) == [s EXCEPT !.combo = 0, !.score = @ - 50]
recordMiss(s) == [s EXCEPT !.combo = 0]


-----------------------------------------------------------------------------
(***************************************************************************)
(* GameController bookkeeping.                                             *)
(***************************************************************************)
\* GameController.addPlayerScore (playerIndex is 0-based)
addPlayerScore(ps, playerIndex) ==
    IF playerIndex + 1 \notin DOMAIN ps THEN ps
    ELSE [ps EXCEPT ![playerIndex + 1].score = @ + 1,
                    ![playerIndex + 1].matches = @ + 1]

\* GameController.nextPlayer
nextPlayer_NoWrap(ps, idx) == idx + 1
nextPlayer(ps, idx) == (idx + 1) % Len(ps)

\* the players array built by startMultiplayerGame
NewPlayers_Reversed(names) ==
    [i \in DOMAIN names |->
        [id |-> i - 1, name |-> names[Len(names) + 1 - i], score |-> 0, matches |-> 0]]
NewPlayers(names) ==
    [i \in DOMAIN names |->
        [id |-> i - 1, name |-> names[i], score |-> 0, matches |-> 0]]

\* the names read from the inputs of the multiplayer screen, one per seat
InputNames == <<"Ann", "Bob", "Cy", "Di">>

\* playerNames of restartGame: this.players.map(p => p.name)
NamesOf(ps) == [i \in DOMAIN ps |-> ps[i].name]

(***************************************************************************)
(* ScoreSystem.calculateFinalScore and calculateStars.  The score of a     *)
(* round is a JavaScript number: a non-negative integer or Infinity (the   *)
(* quotient perfectMoves / moves when moves is 0).                         *)
(***************************************************************************)
\* the sum of two non-negative JavaScript numbers
Plus(a, b) == IF a = Infinity \/ b = Infinity THEN Infinity ELSE a + b

\* Math.round of the quotient n / d of two integers, n >= 0 and d > 0
RoundDiv(n, d) == (2 * n + d) \div (2 * d)

\* ScoreSystem.calculateStars
calculateStars_TwoAtMost(s, score, totalPairs) ==
    IF score = Infinity
          \/ 2 * score >= totalPairs * twoStarFactor * DiffMult2(s.difficulty)
      THEN 2 ELSE 1
calculateStars(s, score, totalPairs) ==
    LET threeStarThreshold2 == totalPairs * threeStarFactor * DiffMult2(s.difficulty)
        twoStarThreshold2   == totalPairs * twoStarFactor * DiffMult2(s.difficulty)
    IN  IF score = Infinity \/ 2 * score >= threeStarThreshold2 THEN 3
        ELSE IF 2 * score >= twoStarThreshold2 THEN 2
        ELSE 1

\* ScoreSystem.calculateFinalScore(totalPairs), totalPairs > 0; every
\* product with the doubled multiplier is halved at the end
calculateFinalScore_NoClamp(s, totalPairs) ==
    LET tb == ((totalPairs * expectedSecondsPerPair - s.time)
                  * timeBonusScale * DiffMult2(s.difficulty)) \div 2
        eb == IF s.moves = 0 THEN Infinity
              ELSE RoundDiv(timeBonusBase * totalPairs * 2 * DiffMult2(s.difficulty),
                            2 * s.moves)
        pb == IF s.moves = totalPairs * 2
                THEN s.score * (perfectBonusMultiplier - 1) ELSE 0
        cb == RoundDiv(s.maxCombo * comboFinalBonus * DiffMult2(s.difficulty), 2)
        tot == Plus(Plus(Plus(Plus(s.score, tb), eb), pb), cb)
    IN  [matchScore |-> s.score, timeBonus |-> tb, efficiencyBonus |-> eb,
         perfectBonus |-> pb, comboBonus |-> cb, maxCombo |-> s.maxCombo,
         total |-> tot, moves |-> s.moves, time |-> s.time,
         isPerfect |-> (s.moves = totalPairs * 2),
         stars |-> calculateStars(s, tot, totalPairs),
         totalPairs |-> totalPairs]
calculateFinalScore_NoPerfectBonus(s, totalPairs) ==
    [calculateFinalScore_NoClamp(s, totalPairs) EXCEPT
        !.perfectBonus = s.score * (perfectBonusMultiplier - 2)]
calculateFinalScore_Accumulates(s, totalPairs) ==
    [calculateFinalScore_NoClamp(s, totalPairs) EXCEPT
        !.matchScore = s.score + finalScore.matchScore]
calculateFinalScore(s, totalPairs) ==
    LET diffMultiplier2 == DiffMult2(s.difficulty)
        expectedTime    == totalPairs * expectedSecondsPerPair
        \* (expectedTime - time) * 10 * diffMultiplier is an integer
        timeBonusRaw    == ((expectedTime - s.time) * timeBonusScale
                               * diffMultiplier2) \div 2
        timeBonus       == IF timeBonusRaw > 0 THEN timeBonusRaw ELSE 0
        perfectMoves    == totalPairs * 2
        \* round(timeBonusBase * (perfectMoves / moves) * diffMultiplier)
        efficiencyBonus ==
            IF s.moves = 0 THEN Infinity
            ELSE RoundDiv(timeBonusBase * perfectMoves * diffMultiplier2,
                          2 * s.moves)
        isPerfect       == s.moves = perfectMoves
        perfectBonus    == IF isPerfect
                             THEN s.score * (perfectBonusMultiplier - 1) ELSE 0
        comboBonus      == RoundDiv(s.maxCombo * comboFinalBonus * diffMultiplier2, 2)
        totalScore      == Plus(Plus(Plus(Plus(s.score, timeBonus),
                                          efficiencyBonus), perfectBonus),
                                comboBonus)
    IN  [matchScore |-> s.score, timeBonus |-> timeBonus,
         efficiencyBonus |-> efficiencyBonus, perfectBonus |-> perfectBonus,
         comboBonus |-> comboBonus, maxCombo |-> s.maxCombo,
         total |-> totalScore, moves |-> s.moves, time |-> s.time,
         isPerfect |-> isPerfect,
         stars |-> calculateStars(s, totalScore, totalPairs),
         totalPairs |-> totalPairs]

\* no call of calculateFinalScore yet
NoFinalScore ==
    [matchScore |-> 0, timeBonus |-> 0, efficiencyBonus |-> 0,
     perfectBonus |-> 0, comboBonus |-> 0, maxCombo |-> 0, total |-> 0,
     moves |-> 0, time |-> 0, isPerfect |-> FALSE, stars |-> 0,
     totalPairs |-> 0]

\* GameController.lastScore: what showGameOver keeps of a breakdown
LastScoreOf(fs) ==
    [score |-> fs.total, time |-> fs.time, moves |-> fs.moves, stars |-> fs.stars]

\* lastScore before the first game-over dialog (undefined)
NoScore == LastScoreOf(NoFinalScore)

(***************************************************************************)
(* StorageManager.  The leaderboard is kept in localStorage as JSON text;  *)
(* the variable holds what JSON.parse gives back.  JSON.stringify writes   *)
(* a score of Infinity as null.  The date string of an entry is left out.  *)
(***************************************************************************)
\* StorageManager.getDefaultLeaderboard
getDefaultLeaderboard == [d \in AllDifficulties |-> << >>]

\* JSON.parse(JSON.stringify(entry))
stringified(e) == [e EXCEPT !.score = IF @ = Infinity THEN Null ELSE @]

\* the number a score counts as in a subtraction or a comparison
ToNumber(v) == IF v = Null THEN 0 ELSE v

\* the comparator of saveScore: negative when a goes before b
\*   if (b.score !== a.score) return b.score - a.score; return a.time - b.time
compareScores(a, b) ==
    IF b.score # a.score
      THEN IF ToNumber(b.score) > ToNumber(a.score) THEN 1
           ELSE IF ToNumber(b.score) < ToNumber(a.score) THEN -1
           ELSE 0
      ELSE a.time - b.time

\* Array.prototype.sort, which is stable: x goes before the first element
\* that the comparator puts after it
RECURSIVE InsertSorted(_, _)
InsertSorted(sorted, x) ==
    IF sorted = << >> THEN <<x>>
    ELSE IF compareScores(x.entry, Head(sorted).entry) < 0
      THEN <<x>> \o sorted
      ELSE <<Head(sorted)>> \o InsertSorted(Tail(sorted), x)

RECURSIVE SortScores(_)
SortScores(list) ==
    IF list = << >> THEN << >>
    ELSE InsertSorted(SortScores(SubSeq(list, 1, Len(list) - 1)),
                      list[Len(list)])

\* findIndex(s => s.timestamp === scoreData.timestamp) + 1
findRank(list, ts) ==
    LET hits == {i \in DOMAIN list : list[i].entry.timestamp = ts}
    IN  IF hits = {} THEN 0
        ELSE CHOOSE i \in hits : \A j \in hits : i <= j

\* the place of the pushed object in a list, 0 when it is not there
PositionOfNew(list) ==
    LET hits == {i \in DOMAIN list : list[i].isNew}
    IN  IF hits = {} THEN 0 ELSE CHOOSE i \in hits : TRUE

\* StorageManager.saveScore(difficulty, scoreData) at time ts; ok tells
\* whether localStorage.setItem succeeds.  Gives the stored leaderboard
\* after the call, the value returned, where the pushed object sits in
\* the stored list, and whether an exception reaches the caller.
saveScore_NoCatch(lb, d, scoreData, ts, ok) ==
    [leaderboard |-> lb, rank |-> -1, position |-> 0, thrown |-> ~ok]
saveScore(lb, d, scoreData, ts, ok) ==
    LET entry  == [scoreData EXCEPT !.timestamp = ts]
        pushed == [i \in DOMAIN lb[d] |-> [entry |-> lb[d][i], isNew |-> FALSE]]
                    \o <<[entry |-> entry, isNew |-> TRUE]>>
        sorted == SortScores(pushed)
        rank   == findRank(sorted, ts)
        kept   == SubSeq(sorted, 1, Min(Len(sorted), MAX_SCORES_PER_DIFFICULTY))
        stored == [lb EXCEPT ![d] =
                      [i \in DOMAIN kept |-> stringified(kept[i].entry)]]
    IN  IF ok
          THEN [leaderboard |-> stored,
                rank |-> IF rank <= MAX_SCORES_PER_DIFFICULTY THEN rank ELSE -1,
                position |-> PositionOfNew(kept), thrown |-> FALSE]
          \* setItem throws, the catch block returns -1
          ELSE [leaderboard |-> lb, rank |-> -1, position |-> 0, thrown |-> FALSE]

\* StorageManager.isHighScore(difficulty, score)
isHighScore(lb, d, score) ==
    \/ Len(lb[d]) < MAX_SCORES_PER_DIFFICULTY
    \/ ToNumber(score) > ToNumber(lb[d][Len(lb[d])].score)

\* StorageManager.clearScores(difficulty), "" for no argument
clearScores(lb, d) ==
    IF d # "" THEN [lb EXCEPT ![d] = << >>] ELSE getDefaultLeaderboard

\* the object GameController.saveScore passes: { name, ...this.lastScore }
ScoreData(name, ls) ==
    [name |-> IF name = "" THEN DefaultName ELSE name, score |-> ls.score,
     time |-> ls.time, moves |-> ls.moves, stars |-> ls.stars, timestamp |-> 0]

\* what the latest call of StorageManager.saveScore did
Saved(d, ok, r) ==
    [difficulty |-> d, ok |-> ok, rank |-> r.rank, position |-> r.position,
     thrown |-> r.thrown]

\* no call of StorageManager.saveScore yet
NoSave ==
    [difficulty |-> "", ok |-> TRUE, rank |-> 0, position |-> 0, thrown |-> FALSE]

(***************************************************************************)
(* Pending timers.  Every entry carries the board (this of the suspended   *)
(* selectCard / checkMatch), the selected card and the pair captured by   *)
(* checkMatch.                                                             *)
(***************************************************************************)
Proc(k, b, c, c1, c2) ==
    [kind |-> k, board |-> b, card |-> c, c1 |-> c1, c2 |-> c2,
     finalScore |-> NoFinalScore]

\* the callback of endGame: showGameOver(finalScore)
GameOverProc(b, fs) == [Proc("gameOver", b, 0, 0, 0) EXCEPT !.finalScore = fs]

Duration(k) ==
    CASE k = "flip" -> FlipTime [] k = "delay" -> DelayTime
      [] k = "unflip" -> UnflipTime [] k = "gameOver" -> GameOverTime

\* the boards still referenced by the controller (gb), by a callback of ps
\* or by a selectCard that is returning (rb)
Referenced(bds, ps, gb, rb) ==
    LET keep == {b \in DOMAIN bds :
                    \/ b = gb
                    \/ b = rb
                    \/ \E i \in DOMAIN ps :
                          ps[i].kind # "gameOver" /\ ps[i].board = b}
    IN  [b \in keep |-> bds[b]]

NoResult == [action |-> "none", board |-> 0]
Result(out, b) == [action |-> out, board |-> b]

RemoveAt(seq, i) == SubSeq(seq, 1, i - 1) \o SubSeq(seq, i + 1, Len(seq))

\* setTimeout order: a timer that was created earlier and is not longer
\* expires first
MayFire(i) ==
    \A j \in 1 .. (i - 1) : Duration(procs[j].kind) > Duration(procs[i].kind)

Event(op, b, c, c1, c2, out) ==
    [op |-> op, board |-> b, card |-> c, c1 |-> c1, c2 |-> c2, outcome |-> out]

-----------------------------------------------------------------------------
Init ==
    /\ gameState = "idle"
    /\ gameBoard = 0
    /\ boards = << >>
    /\ procs = << >>
    /\ scoreSystem = resetScore("medium")
    /\ isMultiplayer = FALSE
    /\ players = << >>
    /\ currentPlayerIndex = 0
    /\ difficulty = "medium"
    /\ screen = "menu"
    /\ pauseMenu = FALSE
    /\ gameOverModal = FALSE
    /\ clicks = 0
    /\ result = NoResult
    /\ stats = [attempts |-> 0, endGames |-> 0, comboPeak |-> 0, activeMs |-> 0]
    /\ last = Event("none", 0, 0, 0, 0, "none")
    /\ now = Epoch
    /\ timers = << >>
    /\ finalScore = NoFinalScore
    /\ lastScore = NoScore
    /\ leaderboard = getDefaultLeaderboard
    /\ saved = NoSave
    /\ deck = NoDeck

(***************************************************************************)
(* GameController.startGame: reset the score engine, make a new board.     *)
(***************************************************************************)
startGame(d) ==
    /\ result = NoResult
    /\ gameBoard < MaxRounds
    /\ scoreSystem' = resetScore(d)
    /\ gameBoard' = gameBoard + 1
    /\ boards' = Referenced((gameBoard + 1 :> NewBoard) @@ boards, procs,
                            gameBoard + 1, 0)
    /\ gameState' = "playing"
    /\ difficulty' = d
    /\ stats' = [attempts |-> 0, endGames |-> 0, comboPeak |-> 0, activeMs |-> 0]
    /\ timers' = Append(timers, Timer("startTimer", now + StartDelay, 0))
    /\ UNCHANGED <<finalScore, lastScore, leaderboard, saved, deck>>
    /\ UNCHANGED <<procs, clicks, result, now>>

\* GameController.startSinglePlayerGame
startSinglePlayerGame(d) ==
    /\ isMultiplayer' = FALSE
    /\ players' = << >>
    /\ UNCHANGED currentPlayerIndex
    /\ startGame(d)

\* GameController.startMultiplayerGame
startMultiplayerGame(playerNames, d) ==
    /\ isMultiplayer' = TRUE
    /\ currentPlayerIndex' = 0
    /\ players' = NewPlayers(playerNames)
    /\ startGame(d)

\* GameController.restartGame
restartGame ==
    /\ pauseMenu' = FALSE
    /\ IF isMultiplayer
         THEN startMultiplayerGame(NamesOf(players), difficulty)
         ELSE startSinglePlayerGame(difficulty)
    /\ last' = Event("restart", gameBoard + 1, 0, 0, 0, "none")

\* GameController.quitGame
quitGame ==
    /\ result = NoResult
    /\ gameState' = "idle"
    /\ boards' = IF gameBoard # 0 THEN [boards EXCEPT ![gameBoard] = clear(@)]
                 ELSE boards
    /\ pauseMenu' = FALSE
    /\ last' = Event("quit", gameBoard, 0, 0, 0, "none")
    /\ scoreSystem' = stopTimer(scoreSystem)
    /\ timers' = stopTimerTimers(scoreSystem, timers)
    /\ UNCHANGED <<finalScore, lastScore, leaderboard, saved, deck>>
    /\ UNCHANGED <<gameBoard, procs, isMultiplayer, players,
                   currentPlayerIndex, difficulty, clicks, result, stats, now>>

(***************************************************************************)
(* User inputs, as wired by UIManager.                                     *)
(***************************************************************************)
\* a difficulty button of the menu
StartSingle ==
    /\ screen = "menu"
    /\ \E d \in Difficulties : startSinglePlayerGame(d)
    /\ last' = Event("start", gameBoard + 1, 0, 0, 0, "none")
    /\ screen' = "game"
    /\ UNCHANGED <<pauseMenu, gameOverModal>>

\* the start button of the multiplayer screen
StartMulti ==
    /\ screen = "menu"
    /\ \E d \in Difficulties, n \in 2 .. MaxPlayers :
          startMultiplayerGame(SubSeq(InputNames, 1, n), d)
    /\ last' = Event("start", gameBoard + 1, 0, 0, 0, "none")
    /\ screen' = "game"
    /\ UNCHANGED <<pauseMenu, gameOverModal>>

\* the early returns of pauseGame and resumeGame
pauseReturnsEarly_OnlyWhenPaused == gameState = "paused"
pauseReturnsEarly == gameState # "playing"

resumeReturnsEarly == gameState # "paused"

\* the pause button or the Escape key: GameController.pauseGame
\* (the key only while 'playing', the button whenever the game screen shows)
PauseGame ==
    /\ result = NoResult
    /\ screen = "game"
    /\ IF pauseReturnsEarly
         THEN /\ last' = Event("pause", gameBoard, 0, 0, 0, "ignored")
              /\ UNCHANGED <<gameState, boards, pauseMenu, scoreSystem>>
         ELSE /\ gameState' = "paused"
              /\ scoreSystem' = pauseTimer(scoreSystem, now)
              /\ boards' = [boards EXCEPT ![gameBoard] = disableAllCards(@)]
              /\ pauseMenu' = TRUE
              /\ last' = Event("pause", gameBoard, 0, 0, 0, "paused")
    /\ UNCHANGED <<finalScore, lastScore, leaderboard, saved, deck>>
    /\ UNCHANGED <<gameBoard, procs, isMultiplayer, players,
                   currentPlayerIndex, difficulty, screen, gameOverModal,
                   clicks, result, stats, now, timers>>

\* the resume button of the pause menu: GameController.resumeGame
ResumeGame ==
    /\ result = NoResult
    /\ pauseMenu
    /\ IF resumeReturnsEarly
         THEN /\ last' = Event("resume", gameBoard, 0, 0, 0, "ignored")
              /\ UNCHANGED <<gameState, boards, pauseMenu, scoreSystem>>
         ELSE /\ gameState' = "playing"
              /\ scoreSystem' = resumeTimer(scoreSystem, now)
              /\ boards' = [boards EXCEPT ![gameBoard] = enableAllCards(@)]
              /\ pauseMenu' = FALSE
              /\ last' = Event("resume", gameBoard, 0, 0, 0, "resumed")
    /\ UNCHANGED <<finalScore, lastScore, leaderboard, saved, deck>>
    /\ UNCHANGED <<gameBoard, procs, isMultiplayer, players,
                   currentPlayerIndex, difficulty, screen, gameOverModal,
                   clicks, result, stats, now, timers>>

\* the restart button of the pause menu
RestartButton ==
    /\ pauseMenu
    /\ restartGame
    /\ UNCHANGED <<screen, gameOverModal>>

\* the play-again button of the game-over dialog
PlayAgainButton ==
    /\ gameOverModal
    /\ gameOverModal' = FALSE
    /\ restartGame
    /\ UNCHANGED screen

\* the quit button of the pause menu
QuitButton ==
    /\ pauseMenu
    /\ quitGame
    /\ screen' = "menu"
    /\ UNCHANGED gameOverModal

\* the back-to-menu button of the game-over dialog
BackToMenuButton ==
    /\ gameOverModal
    /\ gameOverModal' = FALSE
    /\ quitGame
    /\ screen' = "menu"

\* what the player may have typed into the name field, after trim()
TypedNames == {"", "Ann"}

\* the save-score button of the game-over dialog: GameController.saveScore,
\* then the dialog is hidden and the main menu is shown
SaveScoreButton ==
    /\ result = NoResult
    /\ gameOverModal
    /\ \E name \in TypedNames, ok \in BOOLEAN :
          IF lastScore = NoScore \/ isMultiplayer
            THEN /\ UNCHANGED <<leaderboard, saved>>
                 /\ gameOverModal' = FALSE
                 /\ screen' = "menu"
                 /\ last' = Event("saveScore", gameBoard, 0, 0, 0, "skipped")
            ELSE LET r == saveScore(leaderboard, difficulty,
                                    ScoreData(name, lastScore), now, ok)
                 IN  /\ leaderboard' = r.leaderboard
                     /\ saved' = Saved(difficulty, ok, r)
                     /\ gameOverModal' = (gameOverModal /\ r.thrown)
                     /\ screen' = IF r.thrown THEN screen ELSE "menu"
                     /\ last' = Event("saveScore", gameBoard, 0, 0, 0,
                                      IF ok THEN "saved" ELSE "failed")
    /\ UNCHANGED <<gameState, gameBoard, boards, procs, scoreSystem,
                   isMultiplayer, players, currentPlayerIndex, difficulty,
                   pauseMenu, clicks, result, stats, now, timers, finalScore,
                   lastScore, deck>>

-----------------------------------------------------------------------------
(***************************************************************************)
(* GameBoard.selectCard after `await card.flip()`: push the card and, with *)
(* exactly two cards in the buffer, enter checkMatch up to its delay.      *)
(* Gives the board and the timers after the step.                          *)
(***************************************************************************)
pushCard(bd, c) == [bd EXCEPT !.flippedCards = Append(@, c)]

checkStarts_AtThree(bd) == Len(bd.flippedCards) = 3
checkStarts(bd) == Len(bd.flippedCards) = 2

afterFlipBoard(bd, c) ==
    LET pushed == pushCard(bd, c)
    IN  IF checkStarts(pushed) THEN [pushed EXCEPT !.isLocked = TRUE] ELSE pushed

afterFlipProcs(ps, b, bd, c) ==
    LET pushed == pushCard(bd, c)
    IN  IF checkStarts(pushed)
          THEN Append(ps, Proc("delay", b, c, pushed.flippedCards[1],
                               pushed.flippedCards[2]))
          ELSE ps

afterFlipOutcome(bd, c) ==
    IF checkStarts(pushCard(bd, c)) THEN "checking" ELSE "flipped"

\* history: a second card accepted into the buffer of the current board
countAttempt(b, bd, c) ==
    IF b = gameBoard /\ checkStarts(pushCard(bd, c))
      THEN [stats EXCEPT !.attempts = @ + 1] ELSE stats

(***************************************************************************)
(* GameController.handleCardSelection up to its first timer: the click,    *)
(* touch or keyboard handlers call it only while gameState is 'playing'.   *)
(***************************************************************************)
recordsMove(bd, c) == Len(bd.flippedCards) = 1

handleCardSelection(c) ==
    LET b  == gameBoard
        bd == boards[b]
    IN  /\ result = NoResult
        /\ gameState = "playing"
        /\ clicks < MaxClicks
        /\ clicks' = clicks + 1
        /\ scoreSystem' = IF recordsMove(bd, c) THEN recordMove(scoreSystem)
                          ELSE scoreSystem
        /\ IF selectCardIgnored(bd, c)
             THEN /\ last' = Event("select", b, c, c, c, "ignored")
                  /\ UNCHANGED <<boards, procs, stats>>
             ELSE IF flipRefused(bd, c)
             THEN /\ boards' = [boards EXCEPT ![b] = afterFlipBoard(bd, c)]
                  /\ procs' = afterFlipProcs(procs, b, bd, c)
                  /\ stats' = countAttempt(b, bd, c)
                  /\ last' = Event("select", b, c, c, c, afterFlipOutcome(bd, c))
             ELSE /\ boards' = [boards EXCEPT ![b].isFlipped[c] = TRUE]
                  /\ procs' = Append(procs, Proc("flip", b, c, c, c))
                  /\ last' = Event("select", b, c, c, c, "flipping")
                  /\ UNCHANGED stats
        /\ UNCHANGED <<finalScore, lastScore, leaderboard, saved, deck>>
        /\ UNCHANGED <<gameState, gameBoard, isMultiplayer, players,
                       currentPlayerIndex, difficulty, screen, pauseMenu,
                       gameOverModal, result, now, timers>>

(***************************************************************************)
(* GameBoard.checkMatch after its delay.                                   *)
(***************************************************************************)
matchedBoard_CountsCards(bd, c1, c2) ==
    [setMatched(bd, c1, c2) EXCEPT !.matchedPairs = @ + 2,
                                   !.flippedCards = << >>,
                                   !.isLocked = FALSE]
matchedBoard(bd, c1, c2) ==
    [setMatched(bd, c1, c2) EXCEPT !.matchedPairs = @ + 1,
                                   !.flippedCards = << >>,
                                   !.isLocked = FALSE]

isComplete_CountsCards(bd) == bd.matchedPairs = 2 * bd.totalPairs
isComplete(bd) == bd.matchedPairs = bd.totalPairs

matchOutcome(bd) == IF isComplete(bd) THEN "complete" ELSE "match"

\* Card.unflip on both cards
unflipped(bd, c1, c2) ==
    [bd EXCEPT !.isFlipped = [c \in CardIds |->
          IF c \in {c1, c2} /\ ~unflipRefused(bd, c) THEN FALSE ELSE @[c]]]

\* the end of the no-match branch
releasedBoard(bd) == [bd EXCEPT !.flippedCards = << >>, !.isLocked = FALSE]

(***************************************************************************)
(* Timer callbacks.                                                        *)
(***************************************************************************)
\* the 300 ms timer of Card.flip: selectCard resumes
FlipDone(i) ==
    LET p  == procs[i]
        bd == boards[p.board]
    IN  /\ result = NoResult
        /\ p.kind = "flip"
        /\ MayFire(i)
        /\ procs' = afterFlipProcs(RemoveAt(procs, i), p.board, bd, p.card)
        /\ boards' = Referenced([boards EXCEPT ![p.board] = afterFlipBoard(bd, p.card)],
                                procs', gameBoard, 0)
        /\ stats' = countAttempt(p.board, bd, p.card)
        /\ last' = Event("flipDone", p.board, p.card, p.card, p.card,
                         afterFlipOutcome(bd, p.card))
        /\ UNCHANGED <<finalScore, lastScore, leaderboard, saved, deck>>
        /\ UNCHANGED <<gameState, gameBoard, scoreSystem, isMultiplayer,
                       players, currentPlayerIndex, difficulty, screen,
                       pauseMenu, gameOverModal, clicks, result, now, timers>>

\* the 500 ms timer of GameBoard.delay: checkMatch resumes
DelayDone(i) ==
    LET p  == procs[i]
        bd == boards[p.board]
        rest == RemoveAt(procs, i)
        hit == matchedBoard(bd, p.c1, p.c2)
    IN  /\ result = NoResult
        /\ p.kind = "delay"
        /\ MayFire(i)
        /\ IF matches(p.c1, p.c2)
             THEN /\ boards' = [boards EXCEPT ![p.board] = hit]
                  /\ procs' = rest
                  /\ result' = Result(matchOutcome(hit), p.board)
                  /\ last' = Event("resolve", p.board, p.card, p.c1, p.c2,
                                   matchOutcome(hit))
             ELSE IF unflipRefused(bd, p.c1) /\ unflipRefused(bd, p.c2)
             THEN \* both unflip() promises are already resolved
                  /\ boards' = [boards EXCEPT ![p.board] = releasedBoard(bd)]
                  /\ procs' = rest
                  /\ result' = Result("noMatch", p.board)
                  /\ last' = Event("resolve", p.board, p.card, p.c1, p.c2,
                                   "noMatch")
             ELSE /\ boards' = [boards EXCEPT ![p.board] = unflipped(bd, p.c1, p.c2)]
                  /\ procs' = Append(rest, Proc("unflip", p.board, p.card,
                                                p.c1, p.c2))
                  /\ last' = Event("unflip", p.board, p.card, p.c1, p.c2,
                                   "unflipping")
                  /\ UNCHANGED result
        /\ UNCHANGED <<finalScore, lastScore, leaderboard, saved, deck>>
        /\ UNCHANGED <<gameState, gameBoard, scoreSystem, isMultiplayer,
                       players, currentPlayerIndex, difficulty, screen,
                       pauseMenu, gameOverModal, clicks, stats, now, timers>>

\* the 500 ms timers of Card.unflip: the no-match branch of checkMatch ends
UnflipDone(i) ==
    LET p  == procs[i]
        bd == boards[p.board]
    IN  /\ result = NoResult
        /\ p.kind = "unflip"
        /\ MayFire(i)
        /\ boards' = [boards EXCEPT ![p.board] = releasedBoard(bd)]
        /\ procs' = RemoveAt(procs, i)
        /\ result' = Result("noMatch", p.board)
        /\ last' = Event("resolve", p.board, p.card, p.c1, p.c2, "noMatch")
        /\ UNCHANGED <<finalScore, lastScore, leaderboard, saved, deck>>
        /\ UNCHANGED <<gameState, gameBoard, scoreSystem, isMultiplayer,
                       players, currentPlayerIndex, difficulty, screen,
                       pauseMenu, gameOverModal, clicks, stats, now, timers>>

\* GameController.showGameOver, called by the 1000 ms timer of endGame
ShowGameOver(i) ==
    /\ result = NoResult
    /\ procs[i].kind = "gameOver"
    /\ MayFire(i)
    /\ gameOverModal' = TRUE
    /\ procs' = RemoveAt(procs, i)
    /\ lastScore' = LastScoreOf(procs[i].finalScore)
    /\ last' = Event("showGameOver", procs[i].board, 0, 0, 0, "none")
    /\ UNCHANGED <<finalScore, leaderboard, saved, deck>>
    /\ UNCHANGED <<gameState, gameBoard, boards, scoreSystem, isMultiplayer,
                   players, currentPlayerIndex, difficulty, screen, pauseMenu,
                   clicks, result, stats, now, timers>>

(***************************************************************************)
(* The continuation of handleCardSelection once selectCard has returned    *)
(* result.action (the switch).  'complete' runs endGame, which works on    *)
(* the controller's current board.                                         *)
(***************************************************************************)
isMatchOutcome_MatchOnly(out) == out = "match"
isMatchOutcome(out) == out \in {"match", "complete"}

endsGame(out) == out = "complete"

Deliver ==
    LET out == result.action
        scored == IF isMatchOutcome(out) THEN recordMatch(scoreSystem)
                  ELSE IF out = "noMatch" THEN recordMiss(scoreSystem)
                  ELSE scoreSystem
    IN  /\ result # NoResult
        /\ result' = NoResult
        /\ scoreSystem' = IF endsGame(out) THEN stopTimer(scored) ELSE scored
        /\ timers' = IF endsGame(out) THEN stopTimerTimers(scored, timers)
                     ELSE timers
        /\ players' = IF isMatchOutcome(out) /\ isMultiplayer
                        THEN addPlayerScore(players, currentPlayerIndex)
                        ELSE players
        /\ currentPlayerIndex' = IF out = "noMatch" /\ isMultiplayer
                                   THEN nextPlayer(players, currentPlayerIndex)
                                   ELSE currentPlayerIndex
        /\ IF endsGame(out)
             THEN \* GameController.endGame
                  /\ gameState' = "finished"
                  /\ boards' = Referenced([boards EXCEPT ![gameBoard] = disableAllCards(@)],
                                          procs, gameBoard, 0)
                  /\ finalScore' = calculateFinalScore(scoreSystem',
                                        boards[gameBoard].totalPairs)
                  /\ procs' = Append(procs, GameOverProc(gameBoard, finalScore'))
             ELSE /\ boards' = Referenced(boards, procs, gameBoard, 0)
                  /\ UNCHANGED <<gameState, procs, finalScore>>
        /\ stats' = [stats EXCEPT
              !.endGames = IF endsGame(out) THEN @ + 1 ELSE @,
              !.comboPeak = IF scoreSystem'.combo > @ THEN scoreSystem'.combo ELSE @]
        /\ last' = Event("deliver", result.board, 0, 0, 0, out)
        /\ UNCHANGED <<lastScore, leaderboard, saved, deck>>
        /\ UNCHANGED <<gameBoard, isMultiplayer, difficulty, screen, pauseMenu,
                       gameOverModal, clicks, now>>

-----------------------------------------------------------------------------
SelectCard == \E c \in CardIds : handleCardSelection(c)
FlipTimer == \E i \in DOMAIN procs : FlipDone(i)
DelayTimer == \E i \in DOMAIN procs : DelayDone(i)
UnflipTimer == \E i \in DOMAIN procs : UnflipDone(i)
GameOverTimer == \E i \in DOMAIN procs : ShowGameOver(i)

Next ==
    \/ StartSingle
    \/ StartMulti
    \/ SelectCard
    \/ PauseGame
    \/ ResumeGame
    \/ RestartButton
    \/ PlayAgainButton
    \/ QuitButton
    \/ BackToMenuButton
    \/ SaveScoreButton
    \/ FlipTimer
    \/ DelayTimer
    \/ UnflipTimer
    \/ GameOverTimer
    \/ Deliver

Spec == Init /\ [][Next]_vars

\* the same system when every pending setTimeout callback eventually runs
\* and every awaiting handleCardSelection eventually continues
LiveSpec ==
    /\ Init /\ [][Next]_vars
    /\ WF_vars(FlipTimer)
    /\ WF_vars(DelayTimer)
    /\ WF_vars(UnflipTimer)
    /\ WF_vars(Deliver)

-----------------------------------------------------------------------------
(***************************************************************************)
(* The clock and the callbacks it drives.                                  *)
(***************************************************************************)
TimerFrame ==
    UNCHANGED <<finalScore, lastScore, leaderboard, saved, deck,
                gameState, gameBoard, boards, procs, isMultiplayer, players,
                currentPlayerIndex, difficulty, screen, pauseMenu,
                gameOverModal, clicks, result>>

\* time passes, up to the next callback that is due
AdvanceClock ==
    /\ now + ClockStep <= Epoch + MaxClockSteps * ClockStep
    /\ \A i \in DOMAIN timers : timers[i].due >= now + ClockStep
    /\ now' = now + ClockStep
    /\ last' = Event("clock", gameBoard, 0, 0, 0, "none")
    /\ stats' = [stats EXCEPT !.activeMs = IF scoreSystem.isPaused THEN @
                                           ELSE @ + ClockStep]
    /\ UNCHANGED <<scoreSystem, timers>>
    /\ TimerFrame

\* the callback that startGame has set for 500 ms later
StartTimerDone(i) ==
    LET rest == RemoveAt(timers, i)
        id   == NewIntervalId(timers)
    IN  /\ timers[i].kind = "startTimer"
        /\ timers[i].due <= now
        /\ \A j \in 1 .. (i - 1) : timers[j].due > timers[i].due
        /\ IF gameState = "playing"
             THEN /\ scoreSystem' = startTimer(scoreSystem, now, id)
                  /\ timers' = Append(rest, Timer("interval", now + TickPeriod, id))
                  /\ last' = Event("startTimer", gameBoard, 0, 0, 0, "started")
             ELSE /\ timers' = rest
                  /\ last' = Event("startTimer", gameBoard, 0, 0, 0, "ignored")
                  /\ UNCHANGED scoreSystem
        /\ UNCHANGED <<now, stats>>
        /\ TimerFrame

\* the callback of a live interval, every 1000 ms
IntervalDone(i) ==
    /\ timers[i].kind = "interval"
    /\ timers[i].due <= now
    /\ \A j \in 1 .. (i - 1) : timers[j].due > timers[i].due
    /\ scoreSystem' = tick(scoreSystem, now)
    /\ timers' = [timers EXCEPT ![i].due = @ + TickPeriod]
    /\ last' = Event("tick", gameBoard, timers[i].id, 0, 0,
                     IF scoreSystem.isPaused THEN "ignored" ELSE "counted")
    /\ UNCHANGED <<now, stats>>
    /\ TimerFrame

StartTimerTimeout == \E i \in DOMAIN timers : StartTimerDone(i)
IntervalTick == \E i \in DOMAIN timers : IntervalDone(i)

TimerNext ==
    \/ StartSingle
    \/ StartMulti
    \/ PauseGame
    \/ ResumeGame
    \/ RestartButton
    \/ QuitButton
    \/ AdvanceClock
    \/ StartTimerTimeout
    \/ IntervalTick

TimerSpec == Init /\ [][TimerNext]_vars

-----------------------------------------------------------------------------
(***************************************************************************)
(* The score engine on its own: a ScoreSystem after reset() and            *)
(* setDifficulty(d), driven by any sequence of recordMove, recordMatch and *)
(* recordMiss.  A round of the full game is too short to reach the long    *)
(* combo streaks and every difficulty; the scoring arithmetic is checked   *)
(* here.                                                                   *)
(***************************************************************************)
ScoreInit ==
    /\ \E d \in AllDifficulties :
          /\ scoreSystem = resetScore(d)
          /\ difficulty = d
    /\ gameState = "idle"
    /\ gameBoard = 0
    /\ boards = << >>
    /\ procs = << >>
    /\ isMultiplayer = FALSE
    /\ players = << >>
    /\ currentPlayerIndex = 0
    /\ screen = "menu"
    /\ pauseMenu = FALSE
    /\ gameOverModal = FALSE
    /\ clicks = 0
    /\ result = NoResult
    /\ stats = [attempts |-> 0, endGames |-> 0, comboPeak |-> 0, activeMs |-> 0]
    /\ last = Event("none", 0, 0, 0, 0, "none")
    /\ now = Epoch
    /\ timers = << >>
    /\ finalScore = NoFinalScore
    /\ lastScore = NoScore
    /\ leaderboard = getDefaultLeaderboard
    /\ saved = NoSave
    /\ deck = NoDeck

ScoreFrame ==
    UNCHANGED <<finalScore, lastScore, leaderboard, saved, deck,
                gameState, gameBoard, boards, procs, isMultiplayer, players,
                currentPlayerIndex, difficulty, screen, pauseMenu,
                gameOverModal, clicks, result, stats, now, timers>>

ScoreRecordMove ==
    /\ scoreSystem.moves < MaxMoves
    /\ scoreSystem' = recordMove(scoreSystem)
    /\ last' = Event("recordMove", 0, 0, 0, 0, "none")
    /\ ScoreFrame

ScoreRecordMatch ==
    /\ scoreSystem.matches < MaxMatches
    /\ scoreSystem' = recordMatch(scoreSystem)
    /\ last' = Event("recordMatch", 0, 0, 0, 0, "none")
    /\ ScoreFrame

ScoreRecordMiss ==
    /\ scoreSystem' = recordMiss(scoreSystem)
    /\ last' = Event("recordMiss", 0, 0, 0, 0, "none")
    /\ ScoreFrame

ScoreNext ==
    \/ ScoreRecordMove
    \/ ScoreRecordMatch
    \/ ScoreRecordMiss

ScoreSpec == ScoreInit /\ [][ScoreNext]_vars

-----------------------------------------------------------------------------
(***************************************************************************)
(* calculateFinalScore as a function of the score engine's fields and of   *)
(* its argument: the fields are drawn from bounded sets, the action calls  *)
(* the function.                                                           *)
(***************************************************************************)
FinalPairs == {NumPairs, EasyPairs}
FinalScores == {50 * k : k \in 0 .. MaxFinalScoreSteps}
\* few moves, and a round with very many
FinalMoves == (0 .. MaxFinalMoves) \cup {10 * MaxFinalMoves}
FinalTimes ==
    {0, 1} \cup {tp * expectedSecondsPerPair + k :
                    tp \in FinalPairs, k \in {-1, 0, 1}}

FinalInit ==
    /\ \E d \in AllDifficulties, sc \in FinalScores, m \in FinalMoves,
          mc \in 0 .. MaxFinalCombo, t \in FinalTimes :
          /\ scoreSystem = [resetScore(d) EXCEPT !.score = sc, !.moves = m,
                                                 !.maxCombo = mc, !.time = t]
          /\ difficulty = d
    /\ gameState = "idle"
    /\ gameBoard = 0
    /\ boards = << >>
    /\ procs = << >>
    /\ isMultiplayer = FALSE
    /\ players = << >>
    /\ currentPlayerIndex = 0
    /\ screen = "menu"
    /\ pauseMenu = FALSE
    /\ gameOverModal = FALSE
    /\ clicks = 0
    /\ result = NoResult
    /\ stats = [attempts |-> 0, endGames |-> 0, comboPeak |-> 0, activeMs |-> 0]
    /\ last = Event("none", 0, 0, 0, 0, "none")
    /\ now = Epoch
    /\ timers = << >>
    /\ finalScore = NoFinalScore
    /\ lastScore = NoScore
    /\ leaderboard = getDefaultLeaderboard
    /\ saved = NoSave
    /\ deck = NoDeck

CalculateFinalScore ==
    /\ \E tp \in FinalPairs :
          finalScore' = calculateFinalScore(scoreSystem, tp)
    \* the event counts the calls made so far, up to MaxFinalCalls
    /\ last' = Event("calculateFinalScore", 0, Min(last.card + 1, MaxFinalCalls),
                     0, 0, "none")
    /\ UNCHANGED <<gameState, gameBoard, boards, procs, scoreSystem,
                   isMultiplayer, players, currentPlayerIndex, difficulty,
                   screen, pauseMenu, gameOverModal, clicks, result, stats,
                   now, timers, lastScore, leaderboard, saved,
                   deck>>

\* the 'complete' case of handleCardSelection in single-player mode:
\* recordMatch, then endGame (stopTimer, calculateFinalScore)
CompleteRound ==
    /\ scoreSystem.matches < MaxFinalMatches
    /\ scoreSystem' = stopTimer(recordMatch(scoreSystem))
    /\ \E tp \in FinalPairs :
          finalScore' = calculateFinalScore(scoreSystem', tp)
    /\ last' = Event("complete", 0, 0, 0, 0, "complete")
    /\ UNCHANGED <<gameState, gameBoard, boards, procs,
                   isMultiplayer, players, currentPlayerIndex, difficulty,
                   screen, pauseMenu, gameOverModal, clicks, result, stats,
                   now, timers, lastScore, leaderboard, saved,
                   deck>>

FinalNext ==
    \/ CalculateFinalScore
    \/ CompleteRound

FinalSpec == FinalInit /\ [][FinalNext]_vars

-----------------------------------------------------------------------------
(***************************************************************************)
(* StorageManager alone: saveScore and clearScores are called with score   *)
(* data drawn from bounded sets while the clock may advance; the board     *)
(* starts empty.                                                           *)
(***************************************************************************)
\* totals a round can end with: finite ones with several times, and
\* Infinity (a round in which no move was counted)
StoreScores == {100 * k : k \in 1 .. MaxStoreScores}
StoreTimes == {10 * k : k \in 1 .. MaxStoreTimes}
StoreData ==
    {ScoreData("Ann", [score |-> sc, time |-> t, moves |-> NumPairs, stars |-> 3]) :
        sc \in StoreScores, t \in StoreTimes}
      \cup {ScoreData("Ann", [score |-> Infinity, time |-> 10, moves |-> 0,
                              stars |-> 3])}

StoreFrame ==
    UNCHANGED <<gameState, gameBoard, boards, procs, scoreSystem,
                isMultiplayer, players, currentPlayerIndex, difficulty,
                screen, pauseMenu, gameOverModal, clicks, result, stats,
                timers, finalScore, lastScore, deck>>

StoreSaveScore ==
    /\ \E d \in Difficulties, scoreData \in StoreData, ok \in BOOLEAN :
          LET r == saveScore(leaderboard, d, scoreData, now, ok)
          IN  /\ leaderboard' = r.leaderboard
              /\ saved' = Saved(d, ok, r)
              /\ last' = Event("saveScore", 0, 0, 0, 0,
                               IF ok THEN "saved" ELSE "failed")
    /\ UNCHANGED now
    /\ StoreFrame

\* clearScores; a failing write is caught and leaves the store as it was
StoreClearScores ==
    /\ \E d \in Difficulties \cup {""}, ok \in BOOLEAN :
          leaderboard' = IF ok THEN clearScores(leaderboard, d) ELSE leaderboard
    /\ last' = Event("clearScores", 0, 0, 0, 0, "none")
    /\ UNCHANGED <<now, saved>>
    /\ StoreFrame

StoreAdvanceClock ==
    /\ now + ClockStep <= Epoch + MaxStoreTicks * ClockStep
    /\ now' = now + ClockStep
    /\ last' = Event("clock", 0, 0, 0, 0, "none")
    /\ UNCHANGED <<leaderboard, saved>>
    /\ StoreFrame

StoreNext ==
    \/ StoreSaveScore
    \/ StoreClearScores
    \/ StoreAdvanceClock

StoreSpec == Init /\ [][StoreNext]_vars

-----------------------------------------------------------------------------
(***************************************************************************)
(* CardThemes.getCardPairs as a function of its argument and of the random *)
(* numbers it draws.  The game specification names cards by their id, so   *)
(* the order and the icons drawn for a board are not recorded there.       *)
(***************************************************************************)
\* the leading icons of the 'emoji' theme, by code point
EmojiIcons ==
    <<"U+1F600", "U+1F60E", "U+1F973", "U+1F60D", "U+1F929", "U+1F607">>

\* themes[currentTheme].icons, cut to NumIcons icons
ThemeIcons == SubSeq(EmojiIcons, 1, NumIcons)

\* [...icons].sort(() => Math.random() - 0.5): the order is any order
Orders(seq) ==
    {[i \in DOMAIN seq |-> seq[f[i]]] :
        f \in {g \in [DOMAIN seq -> DOMAIN seq] :
                  \A a, b \in DOMAIN seq : a # b => g[a] # g[b]}}

\* CardThemes.getIcons(count): the arrays it can return
getIcons(count) ==
    LET n == IF count > Len(ThemeIcons) THEN Min(count, Len(ThemeIcons))
             ELSE count
    IN  {SubSeq(shuffled, 1, n) : shuffled \in Orders(ThemeIcons)}

\* the cards pushed by the forEach of getCardPairs, in order
PairsOf(icons) ==
    [k \in 1 .. 2 * Len(icons) |->
        [id |-> k - 1, pairId |-> (k - 1) \div 2,
         icon |-> icons[(k - 1) \div 2 + 1]]]

\* [shuffled[i], shuffled[j]] = [shuffled[j], shuffled[i]]
Swap_CopiesOnly(array, i, j) == [array EXCEPT ![i] = array[j]]
Swap(array, i, j) == [array EXCEPT ![i] = array[j], ![j] = array[i]]

\* CardThemes.shuffle from index i down, with every draw of j
RECURSIVE ShuffleFrom(_, _)
ShuffleFrom(array, i) ==
    IF i < 2 THEN {array}
    ELSE UNION {ShuffleFrom(Swap(array, i, j), i - 1) : j \in 1 .. i}

shuffle(array) == ShuffleFrom(array, Len(array))

\* CardThemes.getCardPairs(pairCount): the arrays it can return
getCardPairs(pairCount) ==
    UNION {shuffle(PairsOf(icons)) : icons \in getIcons(pairCount)}

GetCardPairs ==
    /\ last.card < MaxDeckCalls
    /\ \E pairCount \in 1 .. NumIcons + 1 :
          \E cards \in getCardPairs(pairCount) :
             deck' = [pairCount |-> pairCount, cards |-> cards]
    \* the event counts the calls made so far
    /\ last' = Event("getCardPairs", 0, last.card + 1, 0, 0, "none")
    /\ UNCHANGED <<gameState, gameBoard, boards, procs, scoreSystem,
                   isMultiplayer, players, currentPlayerIndex, difficulty,
                   screen, pauseMenu, gameOverModal, clicks, result, stats,
                   now, timers, finalScore, lastScore, leaderboard, saved>>

DeckNext == GetCardPairs

DeckSpec == Init /\ [][DeckNext]_vars

-----------------------------------------------------------------------------
TypeOK ==
    /\ gameState \in {"idle", "playing", "paused", "finished"}
    /\ gameBoard \in 0 .. MaxRounds
    /\ DOMAIN boards \subseteq 1 .. MaxRounds
    /\ gameBoard # 0 => gameBoard \in DOMAIN boards
    /\ \A i \in DOMAIN procs :
          procs[i].kind # "gameOver" => procs[i].board \in DOMAIN boards
    /\ clicks \in 0 .. MaxClicks
    /\ result # NoResult => result.board \in DOMAIN boards

-----------------------------------------------------------------------------
(***************************************************************************)
(* Properties.                                                             *)
(***************************************************************************)
\* a round is in progress
InRound == gameState \in {"playing", "paused"}

\* a checkMatch of board b is between its start and its end
Resolving(b) ==
    \E i \in DOMAIN procs :
        procs[i].board = b /\ procs[i].kind \in {"delay", "unflip"}

FaceUpUnmatched(bd) == {c \in CardIds : bd.isFlipped[c] /\ ~bd.isMatched[c]}

\* C1: in every state of a round the reveal buffer of the board holds at
\* most two cards.
C1_BufferAtMostTwo ==
    InRound => Len(boards[gameBoard].flippedCards) <= 2

\* C2: in every state of a round at most two cards of the board are face-up
\* and not matched.
C2_AtMostTwoFaceUp ==
    InRound => Cardinality(FaceUpUnmatched(boards[gameBoard])) <= 2

\* C3: while the buffer holds two cards and their resolution is pending the
\* board is locked, and a selection made then is ignored.
C3_LockedWhileResolving ==
    /\ [](InRound /\ Len(boards[gameBoard].flippedCards) = 2
                  /\ Resolving(gameBoard)
            => boards[gameBoard].isLocked)
    /\ [][clicks' # clicks /\ Len(boards[gameBoard].flippedCards) = 2
                           /\ Resolving(gameBoard)
            => last'.outcome = "ignored"]_vars

\* C4: a selection of a matched or revealed card, or of any card of a locked
\* board, returns 'ignored' and leaves every board as it was; no buffer ever
\* holds a matched card.
C4_IgnoredSelectChangesNothing ==
    /\ [][clicks' # clicks
            /\ (\/ boards[gameBoard].isLocked
                \/ boards[gameBoard].isFlipped[last'.card]
                \/ boards[gameBoard].isMatched[last'.card])
          => last'.outcome = "ignored" /\ boards' = boards]_vars
    /\ [](\A b \in DOMAIN boards :
            \A k \in DOMAIN boards[b].flippedCards :
                ~boards[b].isMatched[boards[b].flippedCards[k]])

\* C4 witness: a matched card has just been selected and was ignored.
C4_Witness ==
    /\ last.op = "select"
    /\ last.outcome = "ignored"
    /\ boards[gameBoard].isMatched[last.card]
    /\ ~boards[gameBoard].isLocked

\* C5: the outcome of a resolution that belongs to a replaced board changes
\* neither the score state, the players, the turn nor gameState.
C5_StaleOutcomeChangesNothing ==
    [][result # NoResult /\ result.board # gameBoard
         => UNCHANGED <<scoreSystem, players, currentPlayerIndex, gameState>>]_vars

\* C6: once idle after a quit, gameState stays idle and nothing is scored
\* until a start makes a new board.
C6_QuitStaysIdleWithoutScoring ==
    [][gameState = "idle" /\ gameBoard' = gameBoard
         => /\ gameState' = "idle"
            /\ UNCHANGED <<scoreSystem, players, currentPlayerIndex>>
            /\ stats'.endGames = stats.endGames]_vars

\* C7: endGame runs at most once in a round, and gameState is 'finished'
\* only when the round's own board has matched all its pairs.
C7_EndGameOnceOnOwnComplete ==
    /\ stats.endGames <= 1
    /\ gameState = "finished"
         => boards[gameBoard].matchedPairs = boards[gameBoard].totalPairs

\* C8: in every state of a round, moves is the number of second cards that
\* were accepted into the buffer of the round's board.
C8_MovesCountAttempts ==
    InRound => scoreSystem.moves = stats.attempts

\* C9: matchedPairs of a board never decreases, grows by one at a time and
\* stays within 0 .. totalPairs.
C9_MatchedPairsMonotone ==
    /\ [][\A b \in DOMAIN boards \cap DOMAIN boards' :
            boards'[b].matchedPairs \in
                {boards[b].matchedPairs, boards[b].matchedPairs + 1}]_vars
    /\ [](\A b \in DOMAIN boards :
            /\ 0 <= boards[b].matchedPairs
            /\ boards[b].matchedPairs <= boards[b].totalPairs)

\* C9 witness: the board of the round has matched all its pairs.
C9_Witness ==
    /\ gameBoard # 0
    /\ boards[gameBoard].matchedPairs = boards[gameBoard].totalPairs
    /\ last.op = "resolve"

\* C10: when checkMatch returns for two captured cards of equal pairId and
\* distinct ids, both are matched, matchedPairs is one more, the buffer is
\* empty and the board unlocked, and the action is 'complete' exactly when
\* matchedPairs has reached totalPairs, 'match' otherwise.
C10_MatchResolution ==
    [][result = NoResult /\ result' # NoResult
         /\ PairId(last'.c1) = PairId(last'.c2) /\ last'.c1 # last'.c2
       => LET pre  == boards[result'.board]
              post == boards'[result'.board]
          IN  /\ post.isMatched[last'.c1] /\ post.isFlipped[last'.c1]
              /\ post.isMatched[last'.c2] /\ post.isFlipped[last'.c2]
              /\ post.matchedPairs = pre.matchedPairs + 1
              /\ post.flippedCards = << >>
              /\ ~post.isLocked
              /\ result'.action = IF post.matchedPairs = post.totalPairs
                                    THEN "complete" ELSE "match"]_vars

\* C10 witness: a resolution has just returned 'complete'.
C10_Witness ==
    /\ result.action = "complete"
    /\ boards[result.board].matchedPairs = boards[result.board].totalPairs

\* C11: when a resolution of two cards with different pairIds returns, the
\* action is 'noMatch', both cards are face-down, the buffer is empty, the
\* board unlocked and matchedPairs as before; the steps of that resolution
\* leave the faces of all other cards alone, and handling the outcome leaves
\* the running score alone.
C11_NoMatchResolution ==
    /\ [][result = NoResult /\ result' # NoResult
            /\ PairId(last'.c1) # PairId(last'.c2)
          => LET pre  == boards[result'.board]
                 post == boards'[result'.board]
             IN  /\ result'.action = "noMatch"
                 /\ ~post.isFlipped[last'.c1] /\ ~post.isMatched[last'.c1]
                 /\ ~post.isFlipped[last'.c2] /\ ~post.isMatched[last'.c2]
                 /\ post.flippedCards = << >>
                 /\ ~post.isLocked
                 /\ post.matchedPairs = pre.matchedPairs
                 /\ \A c \in CardIds \ {last'.c1, last'.c2} :
                       /\ post.isFlipped[c] = pre.isFlipped[c]
                       /\ post.isMatched[c] = pre.isMatched[c]]_vars
    /\ [][last'.op = "unflip" /\ procs' # procs
          => LET pre  == boards[last'.board]
                 post == boards'[last'.board]
             IN  /\ post.matchedPairs = pre.matchedPairs
                 /\ \A c \in CardIds \ {last'.c1, last'.c2} :
                       /\ post.isFlipped[c] = pre.isFlipped[c]
                       /\ post.isMatched[c] = pre.isMatched[c]]_vars
    /\ [][result.action = "noMatch"
          => scoreSystem'.score = scoreSystem.score]_vars

\* C12: handling a 'complete' outcome runs recordMatch once (matches and
\* combo one more, the score raised by the match score of the new combo),
\* credits the current player with one match in multiplayer, and then runs
\* endGame (gameState 'finished').
C12_CompleteAppliesMatchAndEnd ==
    [][result.action = "complete"
       => /\ scoreSystem'.matches = scoreSystem.matches + 1
          /\ scoreSystem'.combo = scoreSystem.combo + 1
          /\ scoreSystem'.score = recordMatch(scoreSystem).score
          /\ scoreSystem'.maxCombo = recordMatch(scoreSystem).maxCombo
          /\ isMultiplayer =>
                /\ players'[currentPlayerIndex + 1].matches
                      = players[currentPlayerIndex + 1].matches + 1
                /\ \A i \in DOMAIN players \ {currentPlayerIndex + 1} :
                      players'[i] = players[i]
          /\ ~isMultiplayer => players' = players
          /\ currentPlayerIndex' = currentPlayerIndex
          /\ gameState' = "finished"
          /\ stats'.endGames = stats.endGames + 1]_vars

\* C12 witness: a 'complete' outcome has just been handled in a multiplayer
\* round and a player holds the credit.
C12_Witness ==
    /\ last.op = "deliver"
    /\ last.outcome = "complete"
    /\ gameState = "finished"
    /\ isMultiplayer
    /\ \E i \in DOMAIN players : players[i].matches > 0

\* C13: handling a 'noMatch' sets the combo streak to 0 whatever it was,
\* handling a 'match' or 'complete' raises it by exactly 1, and maxCombo is
\* the highest value the combo streak has taken since the round started,
\* hence never below combo.
C13_ComboAndMaxCombo ==
    /\ [][result.action = "noMatch" => scoreSystem'.combo = 0]_vars
    /\ [][result.action \in {"match", "complete"}
            => scoreSystem'.combo = scoreSystem.combo + 1]_vars
    /\ [](/\ scoreSystem.maxCombo = stats.comboPeak
          /\ scoreSystem.maxCombo >= scoreSystem.combo)

\* C13 witness: a miss has reset a streak, so maxCombo is above combo.
C13_Witness ==
    /\ last.op = "deliver"
    /\ last.outcome = "noMatch"
    /\ scoreSystem.combo = 0
    /\ scoreSystem.maxCombo = 1

\* C14: every recordMatch raises the combo streak to k = combo + 1 and adds
\* round(100 * (1 + min(k * 0.5, 5)) * m) to the running score, m being
\* 1, 1.5, 2, 3 for easy, medium, hard, expert (here 4 * added =
\* 100 * (2 + min(k, 10)) * 2m); the first match of an easy round gives
\* combo 1 and score 150; from k = 10 on the added score no longer grows.
C14_MatchScoreFormula ==
    [][scoreSystem'.matches = scoreSystem.matches + 1
       => LET k == scoreSystem.combo + 1
              m2 == CASE scoreSystem.difficulty = "easy" -> 2
                      [] scoreSystem.difficulty = "medium" -> 3
                      [] scoreSystem.difficulty = "hard" -> 4
                      [] scoreSystem.difficulty = "expert" -> 6
              added == scoreSystem'.score - scoreSystem.score
          IN  /\ scoreSystem'.combo = k
              /\ 4 * added = 100 * (2 + (IF k < 10 THEN k ELSE 10)) * m2
              /\ (scoreSystem.difficulty = "easy" /\ scoreSystem.matches = 0
                    /\ scoreSystem.combo = 0 /\ scoreSystem.score = 0)
                   => scoreSystem'.combo = 1 /\ scoreSystem'.score = 150
              /\ k >= 10 => 4 * added = 100 * 12 * m2]_vars

\* C14 witness: a match has been recorded with a streak beyond the cap.
C14_Witness ==
    /\ last.op = "recordMatch"
    /\ scoreSystem.combo = 11
    /\ scoreSystem.difficulty = "expert"

\* C15: the running score is never negative and, within a round, never
\* decreases: it changes only when a match is recorded, then by a positive
\* amount; recording a move or a miss leaves it as it was.
C15_ScoreMonotone ==
    /\ [](scoreSystem.score >= 0)
    /\ [][gameBoard' = gameBoard => scoreSystem'.score >= scoreSystem.score]_vars
    /\ [][gameBoard' = gameBoard /\ scoreSystem'.score # scoreSystem.score
            => /\ scoreSystem'.matches = scoreSystem.matches + 1
               /\ scoreSystem'.score > scoreSystem.score]_vars
    /\ [][scoreSystem'.moves = scoreSystem.moves + 1
            => scoreSystem'.score = scoreSystem.score]_vars
    /\ [][result.action = "noMatch"
            => scoreSystem'.score = scoreSystem.score /\ scoreSystem'.combo = 0]_vars

\* C15 witness: a miss has been recorded while the score of an earlier match
\* stood, and the score is still there.
C15_Witness ==
    /\ last.op = "deliver"
    /\ last.outcome = "noMatch"
    /\ scoreSystem.matches = 1
    /\ scoreSystem.score = 150
    /\ scoreSystem.combo = 0

\* C16: in multiplayer, handling a 'match' or 'complete' keeps the turn and
\* raises exactly the current player's matches and score by 1; handling a
\* 'noMatch' passes the turn to (index + 1) mod playerCount and changes no
\* player; the turn index always lies within 0 .. playerCount - 1.
C16_TurnRule ==
    /\ [][isMultiplayer /\ result.action \in {"match", "complete"}
            => /\ currentPlayerIndex' = currentPlayerIndex
               /\ players'[currentPlayerIndex + 1] =
                     [players[currentPlayerIndex + 1] EXCEPT
                         !.score = @ + 1, !.matches = @ + 1]
               /\ \A i \in DOMAIN players \ {currentPlayerIndex + 1} :
                     players'[i] = players[i]]_vars
    /\ [][isMultiplayer /\ result.action = "noMatch"
            => /\ currentPlayerIndex' = (currentPlayerIndex + 1) % Len(players)
               /\ players' = players]_vars
    /\ [](isMultiplayer => currentPlayerIndex \in 0 .. (Len(players) - 1))

\* C16 witness: a 'noMatch' of the last player has passed the turn back to
\* the first one.
C16_Witness ==
    /\ isMultiplayer
    /\ last.op = "deliver"
    /\ last.outcome = "noMatch"
    /\ currentPlayerIndex = 0

\* every live interval is the one the score engine holds the handle of
NoLeakedInterval ==
    \A i \in DOMAIN timers :
        timers[i].kind = "interval" => timers[i].id = scoreSystem.timerInterval

\* C17: while the score engine is paused no tick changes the elapsed time,
\* and the elapsed time counts no paused interval: in a round it never
\* exceeds the time that has passed in that round while not paused.
C17_PausedTimeNotCounted ==
    /\ [][scoreSystem.isPaused /\ scoreSystem'.isPaused
            => scoreSystem'.time = scoreSystem.time]_vars
    /\ [](InRound /\ NoLeakedInterval
            => scoreSystem.time * 1000 <= stats.activeMs)

\* C18: when a round has ended or has been replaced, no interval of it is
\* live any more: every live interval belongs to a round in progress and is
\* the one the score engine holds, and no tick changes the elapsed time
\* outside a round.
C18_TimerStoppedWithRound ==
    /\ [](\A i \in DOMAIN timers :
            timers[i].kind = "interval"
              => InRound /\ timers[i].id = scoreSystem.timerInterval)
    /\ [][last'.op = "tick" /\ ~InRound
            => scoreSystem'.time = scoreSystem.time]_vars

\* C19: pauseGame changes nothing unless gameState is 'playing', and then
\* gameState becomes 'paused'; resumeGame changes nothing unless gameState
\* is 'paused', and then gameState becomes 'playing'.
C19_PauseResumeGuards ==
    /\ [][last'.op = "pause" /\ gameState # "playing"
            => UNCHANGED <<gameState, gameBoard, boards, procs, scoreSystem,
                           isMultiplayer, players, currentPlayerIndex,
                           difficulty, screen, pauseMenu, gameOverModal,
                           clicks, result, stats, now, timers>>]_vars
    /\ [][last'.op = "pause" /\ gameState = "playing"
            => gameState' = "paused"]_vars
    /\ [][last'.op = "resume" /\ gameState # "paused"
            => UNCHANGED <<gameState, gameBoard, boards, procs, scoreSystem,
                           isMultiplayer, players, currentPlayerIndex,
                           difficulty, screen, pauseMenu, gameOverModal,
                           clicks, result, stats, now, timers>>]_vars
    /\ [][last'.op = "resume" /\ gameState = "paused"
            => gameState' = "playing"]_vars

\* C19 witness: the pause button has been pressed after the round finished,
\* and the round is still finished.
C19_Witness ==
    /\ last.op = "pause"
    /\ last.outcome = "ignored"
    /\ gameState = "finished"

\* C20: in every state in which the game can be paused, pauseGame followed
\* at once by resumeGame gives back the board's isLocked flag and every
\* card's isDisabled flag (gameState is 'playing' again by C19).
C20_ResumeInvertsPause ==
    gameState = "playing" /\ result = NoResult
      => LET bd    == boards[gameBoard]
             after == enableAllCards(disableAllCards(bd))
         IN  /\ after.isLocked = bd.isLocked
             /\ after.isDisabled = bd.isDisabled

\* C21: pausing, resuming and ending the game (disableAllCards and
\* enableAllCards on the current board) leave every card's isFlipped and
\* isMatched, the reveal buffer and matchedPairs as they were, and a matched
\* card is not selectable after enableAllCards: selectCard ignores it and
\* flip() refuses it.
C21_EnableDisableKeepFaces ==
    /\ [][gameBoard # 0 /\ gameBoard' = gameBoard
            /\ (last'.op \in {"pause", "resume"} \/ result.action = "complete")
          => LET pre  == boards[gameBoard]
                 post == boards'[gameBoard]
             IN  /\ post.isFlipped = pre.isFlipped
                 /\ post.isMatched = pre.isMatched
                 /\ post.flippedCards = pre.flippedCards
                 /\ post.matchedPairs = pre.matchedPairs]_vars
    /\ [][last.op = "resume" /\ last.outcome = "resumed" /\ clicks' # clicks
            /\ boards[gameBoard].isMatched[last'.card]
          => last'.outcome = "ignored" /\ boards' = boards]_vars

\* C21 witness: the game has been resumed with a matched pair on the board;
\* the pair is enabled again and still matched.
C21_Witness ==
    /\ last.op = "resume"
    /\ last.outcome = "resumed"
    /\ \E c \in CardIds :
          boards[gameBoard].isMatched[c] /\ ~boards[gameBoard].isDisabled[c]

\* C22: right after restartGame gameState is 'playing', the board is a new
\* one with matchedPairs 0, an empty buffer, unlocked and every card
\* face-down and unmatched, the score state is all zeros with the stored
\* difficulty, and in multiplayer the players have the names of before in
\* the same order, score 0, matches 0, and the turn index is 0.
C22_RestartIsBrandNew ==
    [][last'.op = "restart" /\ last' # last
       => LET bd == boards'[gameBoard']
          IN  /\ gameState' = "playing"
              /\ gameBoard' # gameBoard
              /\ bd.matchedPairs = 0
              /\ bd.totalPairs = NumPairs
              /\ bd.flippedCards = << >>
              /\ ~bd.isLocked
              /\ \A c \in CardIds : ~bd.isFlipped[c] /\ ~bd.isMatched[c]
              /\ scoreSystem'.score = 0 /\ scoreSystem'.moves = 0
              /\ scoreSystem'.matches = 0 /\ scoreSystem'.combo = 0
              /\ scoreSystem'.maxCombo = 0 /\ scoreSystem'.time = 0
              /\ scoreSystem'.difficulty = difficulty
              /\ difficulty' = difficulty
              /\ isMultiplayer' = isMultiplayer
              /\ isMultiplayer =>
                    /\ Len(players') = Len(players)
                    /\ \A i \in DOMAIN players :
                          /\ players'[i].name = players[i].name
                          /\ players'[i].score = 0
                          /\ players'[i].matches = 0
                    /\ currentPlayerIndex' = 0]_vars

\* C22 witness: a multiplayer round in which cards had been selected and the
\* turn had passed has just been restarted.
C22_Witness ==
    /\ last.op = "restart"
    /\ isMultiplayer
    /\ clicks >= 2
    /\ scoreSystem.moves = 0
    /\ currentPlayerIndex = 0
    /\ players[1].name = "Ann" /\ players[2].name = "Bob"

\* C23: the breakdown returned by calculateFinalScore(totalPairs) has
\* total = matchScore + timeBonus + efficiencyBonus + perfectBonus +
\* comboBonus; timeBonus is max(0, (totalPairs*10 - time) * 10 * multiplier),
\* so it is never negative and is 0 whenever time >= totalPairs*10; and
\* comboBonus is maxCombo * 50 * multiplier (both products are integers).
C23_FinalScoreBreakdown ==
    finalScore # NoFinalScore =>
      LET f    == finalScore
          tp   == f.totalPairs
          raw2 == (tp * 10 - scoreSystem.time) * 10 * DiffMult2(scoreSystem.difficulty)
      IN  /\ f.matchScore = scoreSystem.score
          /\ f.total = Plus(Plus(Plus(Plus(f.matchScore, f.timeBonus),
                                      f.efficiencyBonus), f.perfectBonus),
                            f.comboBonus)
          /\ f.timeBonus >= 0
          /\ scoreSystem.time >= tp * 10 => f.timeBonus = 0
          /\ 2 * f.timeBonus = IF raw2 > 0 THEN raw2 ELSE 0
          /\ 2 * f.comboBonus
               = scoreSystem.maxCombo * 50 * DiffMult2(scoreSystem.difficulty)

\* C23 witness: a breakdown computed after the expected time has passed,
\* with a combo bonus and a finite total.
C23_Witness ==
    /\ finalScore # NoFinalScore
    /\ scoreSystem.time > finalScore.totalPairs * 10
    /\ finalScore.timeBonus = 0
    /\ finalScore.comboBonus > 0
    /\ finalScore.total # Infinity
    /\ finalScore.total > finalScore.matchScore + finalScore.comboBonus

C25_MovesAtLeastPerfect ==
    (last.op = "deliver" /\ last.outcome = "complete")
      => /\ finalScore.moves >= 2 * finalScore.totalPairs
         /\ 2 * finalScore.efficiencyBonus
              <= 1000 * DiffMult2(scoreSystem.difficulty)

\* C25 counterexample: a round completed without any miss and without any
\* overlapping selection: every pair was counted as one move, so moves is
\* totalPairs and the efficiency ratio is 2.
C25_Counterexample ==
    /\ last.op = "deliver" /\ last.outcome = "complete"
    /\ gameState = "finished"
    /\ gameBoard = 1
    /\ clicks = 2 * NumPairs
    /\ stats.attempts = NumPairs
    /\ finalScore.moves = NumPairs
    /\ finalScore.totalPairs = NumPairs
    /\ finalScore.efficiencyBonus = 2 * 1000

\* C26: in the breakdown isPerfect is true exactly when moves is
\* 2 * totalPairs, perfectBonus is the running score when isPerfect and 0
\* otherwise, and a round completed with isPerfect has a perfectBonus
\* greater than 0.
C26_PerfectBonus ==
    finalScore # NoFinalScore =>
      /\ finalScore.isPerfect <=> scoreSystem.moves = 2 * finalScore.totalPairs
      /\ finalScore.perfectBonus
           = IF finalScore.isPerfect THEN scoreSystem.score ELSE 0
      /\ (last.op = "complete" /\ finalScore.isPerfect)
           => finalScore.perfectBonus > 0

\* C26 witness: 6 pairs completed in exactly 12 moves.
C26_Witness ==
    /\ last.op = "complete"
    /\ finalScore.totalPairs = 6
    /\ finalScore.moves = 12
    /\ finalScore.isPerfect
    /\ finalScore.perfectBonus > 0
    /\ finalScore.perfectBonus = finalScore.matchScore

\* C27: the star rating of a breakdown is 1, 2 or 3: 3 when total is at
\* least totalPairs * 200 * multiplier, otherwise 2 when total is at least
\* totalPairs * 100 * multiplier, otherwise 1; and for the same difficulty
\* and totalPairs a smaller total never gets more stars, a larger total
\* never fewer.
C27_StarRating ==
    finalScore # NoFinalScore =>
      LET tp    == finalScore.totalPairs
          m2    == DiffMult2(scoreSystem.difficulty)
          tot   == finalScore.total
          three == tot = Infinity \/ 2 * tot >= tp * 200 * m2
          two   == tot = Infinity \/ 2 * tot >= tp * 100 * m2
          \* totals around both thresholds, and the extremes
          others == {0, Infinity}
                      \cup {(tp * f * m2) \div 2 + k : f \in {100, 200}, k \in {-1, 0, 1}}
      IN  /\ finalScore.stars \in {1, 2, 3}
          /\ finalScore.stars = 3 <=> three
          /\ finalScore.stars = 2 <=> (~three /\ two)
          /\ \A t \in others :
                /\ (t <= tot => calculateStars(scoreSystem, t, tp) <= finalScore.stars)
                /\ (t >= tot => calculateStars(scoreSystem, t, tp) >= finalScore.stars)

\* C27 witness: a total below the lower threshold, rated 1 star.
C27_Witness ==
    /\ finalScore # NoFinalScore
    /\ finalScore.stars = 1
    /\ finalScore.total > 0
    /\ 2 * finalScore.total
         < finalScore.totalPairs * 100 * DiffMult2(scoreSystem.difficulty)

\* C28: after any sequence of saveScore and clearScores calls from an empty
\* leaderboard every difficulty's stored list has at most 10 entries and is
\* sorted by score descending, entries of equal score by time ascending.
C28_LeaderboardSorted ==
    \A d \in AllDifficulties :
      /\ Len(leaderboard[d]) <= 10
      /\ \A i, j \in DOMAIN leaderboard[d] :
            i < j =>
              LET a == leaderboard[d][i]
                  b == leaderboard[d][j]
              IN  /\ ToNumber(a.score) >= ToNumber(b.score)
                  /\ a.score = b.score => a.time <= b.time

\* C28 counterexample: a result with total Infinity was saved on a board
\* that holds a finite score saved earlier; it is stored first, with score
\* null.
C28_Counterexample ==
    /\ last.op = "saveScore"
    /\ saved.rank = 1
    /\ Len(leaderboard["easy"]) >= 2
    /\ leaderboard["easy"][1].score = Null
    /\ leaderboard["easy"][2].score = 100
    /\ leaderboard["easy"][1].timestamp # leaderboard["easy"][2].timestamp

\* C29: saveScore returns r in 1..10 exactly when the inserted entry sits at
\* position r of the stored list after the call, and -1 exactly when the
\* entry is not in the stored list, and then the stored list of that
\* difficulty is the one of before the call.
C29_RankIsPosition ==
    [][last'.op = "saveScore"
       => LET r   == saved'.rank
              pos == saved'.position
              d   == saved'.difficulty
          IN  /\ r \in (1 .. 10) \cup {-1}
              /\ r \in 1 .. 10 <=> (pos >= 1 /\ pos = r)
              /\ r = -1 <=> pos = 0
              /\ r = -1 => leaderboard'[d] = leaderboard[d]]_vars

\* C29 counterexample: on a full board an entry was saved in the same
\* millisecond as an entry already stored; it sorted to place 11 and was cut
\* off, yet the call returned the rank of the other entry.
C29_Counterexample ==
    /\ last.op = "saveScore"
    /\ saved.ok
    /\ saved.rank \in 1 .. 10
    /\ saved.position = 0
    /\ Len(leaderboard[saved.difficulty]) = 10
    /\ leaderboard[saved.difficulty][saved.rank].timestamp = now

\* C30: when the store write of a save fails, saveScore returns -1, nothing
\* is thrown to the caller, and gameState, the Board, the score state, the
\* players and lastScore are as before the call (so is the stored
\* leaderboard).
C30_FailedWriteChangesNothing ==
    [][(last'.op = "saveScore" /\ last'.outcome = "failed")
       => /\ saved'.rank = -1
          /\ ~saved'.thrown
          /\ UNCHANGED <<gameState, gameBoard, boards, scoreSystem, players,
                         lastScore, leaderboard>>]_vars

\* C30 witness: the result of a completed single-player round could not be
\* written.
C30_Witness ==
    /\ last.op = "saveScore" /\ last.outcome = "failed"
    /\ ~saved.ok
    /\ saved.rank = -1
    /\ gameState = "finished"
    /\ lastScore # NoScore
    /\ lastScore.moves > 0
    /\ ~isMultiplayer

\* C31: for 1 <= N <= number of icons of the theme, getCardPairs(N) returns
\* exactly 2N cards with pairwise distinct ids; every pairId in 0..N-1 is on
\* exactly two cards; two cards have the same icon exactly when they have
\* the same pairId; and the cards are the ones built before the shuffle
\* (ids 0..2N-1, pairId = id div 2, icons of the theme), in some order.
C31_CardPairs ==
    (deck # NoDeck /\ deck.pairCount \in 1 .. Len(ThemeIcons)) =>
      LET cs == deck.cards
          N  == deck.pairCount
      IN  /\ Len(cs) = 2 * N
          /\ \A i, j \in DOMAIN cs : i # j => cs[i].id # cs[j].id
          /\ \A k \in 0 .. N - 1 :
                Cardinality({i \in DOMAIN cs : cs[i].pairId = k}) = 2
          /\ \A i, j \in DOMAIN cs :
                cs[i].pairId = cs[j].pairId <=> cs[i].icon = cs[j].icon
          /\ \A i \in DOMAIN cs :
                /\ cs[i].id \in 0 .. 2 * N - 1
                /\ cs[i].pairId = cs[i].id \div 2
                /\ \E t \in DOMAIN ThemeIcons : cs[i].icon = ThemeIcons[t]

\* C31 witness: a deck using every icon of the theme, returned in an order
\* that is not the order of the ids and with the first pair apart.
C31_Witness ==
    /\ deck.pairCount = Len(ThemeIcons)
    /\ Len(deck.cards) = 2 * Len(ThemeIcons)
    /\ deck.cards[1].id = 2 * Len(ThemeIcons) - 1
    /\ deck.cards[1].pairId # deck.cards[2].pairId
    /\ deck.cards[1].icon = ThemeIcons[1]

\* the phase of card c of board bd
CardPhase(bd, c) ==
    IF bd.isMatched[c] THEN "Matched"
    ELSE IF bd.isFlipped[c] THEN "Revealed" ELSE "Hidden"

\* the other card of the pair of c
Partner(c) == IF c % 2 = 0 THEN c + 1 ELSE c - 1

\* C32: a card of a board only moves from Hidden to Revealed and from
\* Revealed to Matched or Hidden; a Matched card stays Matched and face-up;
\* a card becomes Matched only in the step in which the other card of its
\* pairId becomes Matched.
C32_CardLifeCycle ==
    [][\A b \in DOMAIN boards \cap DOMAIN boards' : \A c \in CardIds :
         LET pre  == CardPhase(boards[b], c)
             post == CardPhase(boards'[b], c)
         IN  /\ pre = "Hidden" => post \in {"Hidden", "Revealed"}
             /\ pre = "Revealed" => post \in {"Revealed", "Matched", "Hidden"}
             /\ pre = "Matched" => post = "Matched" /\ boards'[b].isFlipped[c]
             /\ (pre # "Matched" /\ post = "Matched") =>
                    /\ CardPhase(boards[b], Partner(c)) # "Matched"
                    /\ CardPhase(boards'[b], Partner(c)) = "Matched"]_vars

\* C32 witness: a resolution has just matched a pair of the board of the
\* round, both cards face-up, while the other pair is still hidden.
C32_Witness ==
    /\ InRound
    /\ last.op = "resolve"
    /\ \E c \in CardIds :
          /\ boards[gameBoard].isMatched[c] /\ boards[gameBoard].isFlipped[c]
          /\ boards[gameBoard].isMatched[Partner(c)]
          /\ \E h \in CardIds : CardPhase(boards[gameBoard], h) = "Hidden"

\* the reveal buffer of board b holds two cards
BufferFull(b) == b \in DOMAIN boards /\ Len(boards[b].flippedCards) = 2

\* a checkMatch of board b has returned: the buffer is empty, the board is
\* unlocked and the outcome is 'complete' exactly when all pairs are matched
Resolved(b) ==
    /\ b \in DOMAIN boards
    /\ result # NoResult /\ result.board = b
    /\ boards[b].flippedCards = << >>
    /\ ~boards[b].isLocked
    /\ result.action \in {"match", "noMatch", "complete"}
    /\ result.action = "match" => boards[b].matchedPairs < boards[b].totalPairs
    /\ result.action = "complete" => boards[b].matchedPairs = boards[b].totalPairs

\* C33: when the pending timers fire, every state in which the reveal buffer
\* of a board holds two cards is followed by a state in which the resolution
\* has returned with the buffer empty and the board unlocked, also when the
\* game is paused in between.
C33_ResolutionCompletes ==
    \A b \in 1 .. MaxRounds : BufferFull(b) ~> Resolved(b)

\* C33 witness: a resolution has returned on the board of a paused round.
C33_Witness ==
    /\ gameState = "paused"
    /\ Resolved(gameBoard)
    /\ last.op = "resolve"

\* no flip animation and no checkMatch of board b is pending, and no outcome
\* of b is on its way to the controller
Settled(b) ==
    /\ \A i \in DOMAIN procs :
          procs[i].kind \in {"flip", "delay", "unflip"} => procs[i].board # b
    /\ result = NoResult

\* the cards in the reveal buffer of bd
Buffered(bd) == {bd.flippedCards[i] : i \in DOMAIN bd.flippedCards}

\* C34: in every state of a round in which no flip animation and no
\* resolution is pending, every card that is face-up and not matched is in
\* the reveal buffer.
C34_NoCardStuckFaceUp ==
    (InRound /\ Settled(gameBoard)) =>
        FaceUpUnmatched(boards[gameBoard]) \subseteq Buffered(boards[gameBoard])

\* C34 counterexample: the round is being played, nothing is pending, the
\* buffer is empty and the board unlocked, and a card is face-up and not
\* matched: no selection can ever turn it.
C34_Counterexample ==
    /\ gameState = "playing"
    /\ Settled(gameBoard)
    /\ procs = << >>
    /\ boards[gameBoard].flippedCards = << >>
    /\ ~boards[gameBoard].isLocked
    /\ FaceUpUnmatched(boards[gameBoard]) # {}

\* C35: a step taken while gameState is 'paused' does not make it
\* 'finished', and as long as it stays 'paused' the score, moves, matches,
\* combo, the board's matchedPairs, the players' scores and the turn index
\* keep their values.
C35_PausedRoundFrozen ==
    [][gameState = "paused" =>
         /\ gameState' # "finished"
         /\ gameState' = "paused" =>
              /\ scoreSystem'.score = scoreSystem.score
              /\ scoreSystem'.moves = scoreSystem.moves
              /\ scoreSystem'.matches = scoreSystem.matches
              /\ scoreSystem'.combo = scoreSystem.combo
              /\ gameBoard' = gameBoard
              /\ boards'[gameBoard].matchedPairs = boards[gameBoard].matchedPairs
              /\ players' = players
              /\ currentPlayerIndex' = currentPlayerIndex]_vars

\* C35 counterexample: the round was paused while the resolution of its
\* last pair was in flight; the outcome was delivered during the pause, the
\* match was scored and endGame has made the state 'finished' under the
\* pause menu.
C35_Counterexample ==
    /\ gameState = "finished"
    /\ pauseMenu
    /\ last.op = "deliver" /\ last.outcome = "complete"
    /\ last.board = gameBoard
    /\ scoreSystem.matches = boards[gameBoard].totalPairs

\* the sum of the matches of the players ps
RECURSIVE SumMatches(_)
SumMatches(ps) ==
    IF ps = << >> THEN 0 ELSE ps[1].matches + SumMatches(Tail(ps))

\* C36: in every state of a round in which no resolution outcome awaits
\* delivery, ScoreSystem.matches equals matchedPairs of the current board
\* and, in multiplayer, so does the sum of the players' matches.
C36_BookkeepingAgrees ==
    (InRound /\ result = NoResult) =>
        /\ scoreSystem.matches = boards[gameBoard].matchedPairs
        /\ isMultiplayer => SumMatches(players) = boards[gameBoard].matchedPairs

\* C36 counterexample: in a multiplayer round with no outcome awaiting
\* delivery and nothing pending, the score engine and the players count a
\* match that the current board does not have.
C36_Counterexample ==
    /\ gameState = "playing"
    /\ isMultiplayer
    /\ result = NoResult
    /\ procs = << >>
    /\ boards[gameBoard].matchedPairs = 0
    /\ scoreSystem.matches = 1
    /\ SumMatches(players) = 1

\* the intervals created by startTimer and not cleared
LiveIntervals == {i \in DOMAIN timers : timers[i].kind = "interval"}

\* C37: at any time at most one interval created by startTimer is live.
C37_AtMostOneInterval ==
    Cardinality(LiveIntervals) <= 1

\* C37 counterexample: two intervals are live in one round, the one the
\* score engine holds and one that no stopTimer can clear any more.
C37_Counterexample ==
    /\ gameState = "playing"
    /\ Cardinality(LiveIntervals) = 2
    /\ \E i \in LiveIntervals : timers[i].id = scoreSystem.timerInterval
    /\ \E i \in LiveIntervals : timers[i].id # scoreSystem.timerInterval

\* a start-delay callback of startGame has not run yet
StartDelayPending == \E i \in DOMAIN timers : timers[i].kind = "startTimer"

\* the interval whose handle the score engine holds is live
TimerRunning ==
    \E i \in LiveIntervals : timers[i].id = scoreSystem.timerInterval

\* C38: whenever gameState is 'playing' and every start-delay callback, the
\* one of the current round included, has fired, a timer interval is live.
C38_TimerRunsWhilePlaying ==
    (gameState = "playing" /\ ~StartDelayPending) => TimerRunning

\* C38 counterexample: the round was paused before its start delay elapsed
\* and resumed after it; it is being played, the score engine is not paused,
\* no callback is pending and no interval is live.
C38_Counterexample ==
    /\ gameState = "playing"
    /\ last.op = "resume" /\ last.outcome = "resumed"
    /\ ~scoreSystem.isPaused
    /\ timers = << >>
    /\ scoreSystem.timerInterval = 0
    /\ now >= Epoch + StartDelay

\* saveScore of scoreData into difficulty d, called now with a write that
\* succeeds, would return a rank in 1 .. MAX_SCORES_PER_DIFFICULTY
WouldRank(d, scoreData) ==
    saveScore(leaderboard, d, scoreData, now, TRUE).rank
        \in 1 .. MAX_SCORES_PER_DIFFICULTY

\* C39: for every stored leaderboard, difficulty and score data,
\* isHighScore(difficulty, score) is true exactly when saveScore of an entry
\* with that score would return a rank in 1..10.
C39_EligibilityAgreesWithSaving ==
    \A d \in Difficulties, scoreData \in StoreData :
        isHighScore(leaderboard, d, scoreData.score) <=> WouldRank(d, scoreData)

\* C39 counterexample: a full board of finite scores, none saved in the
\* current millisecond; an entry with the score of the last place and a
\* shorter time is not a high score for isHighScore, and saveScore would
\* rank it.
C39_Counterexample ==
    \E d \in Difficulties, scoreData \in StoreData :
        /\ Len(leaderboard[d]) = MAX_SCORES_PER_DIFFICULTY
        /\ \A i \in DOMAIN leaderboard[d] :
              /\ leaderboard[d][i].score # Null
              /\ leaderboard[d][i].timestamp # now
        /\ scoreData.score = leaderboard[d][MAX_SCORES_PER_DIFFICULTY].score
        /\ scoreData.time < leaderboard[d][MAX_SCORES_PER_DIFFICULTY].time
        /\ ~isHighScore(leaderboard, d, scoreData.score)
        /\ WouldRank(d, scoreData)

\* C40: when calculateFinalScore has run at the completion of a round, the
\* move counter is at least 1 and efficiencyBonus and total are finite.
C40_FiniteFinalScore ==
    (last.op = "deliver" /\ last.outcome = "complete")
      => /\ finalScore.moves >= 1
         /\ finalScore.efficiencyBonus # Infinity
         /\ finalScore.total # Infinity

\* C40 counterexample: the first round was completed with every second
\* card selected while the flip of the first was still running, so no move
\* was counted: the efficiency ratio is a division by zero and the total
\* is Infinity.
C40_Counterexample ==
    /\ last.op = "deliver" /\ last.outcome = "complete"
    /\ gameState = "finished"
    /\ gameBoard = 1
    /\ last.board = 1
    /\ finalScore.moves = 0
    /\ finalScore.efficiencyBonus = Infinity
    /\ finalScore.total = Infinity

====
